---- MODULE Spec2Model ----
(***************************************************************************)
(* Cedrus: the three-tier data path (durable store -> cache -> per-node   *)
(* materialized state), the admin controller's mutating operations, and   *)
(* the event bus that carries mutations to the other nodes.               *)
(*                                                                         *)
(* Every asynchronous handler is a task that advances one await at a time *)
(* (field pc); two handlers interleave exactly at their awaits.           *)
(***************************************************************************)
EXTENDS Integers, Sequences, FiniteSets, TLC

(* ------------------------------ bounds -------------------------------- *)

\* Non-nil project ids that project_create can hand out in one behaviour.
MaxProjects == 1
\* Nodes of the cluster.
NumNodes == 2
\* Management calls issued in one behaviour.
MaxTasks == 3
\* Calls that may be in flight at the same time.
MaxInFlight == 2
\* Calls issued in one behaviour of SpecData, which issues them one at a time.
MaxDataCalls == 2
\* Redeliveries the bus may make in one behaviour (SpecRedeliver only).
MaxRedeliver == 1
\* Calls issued in one behaviour of SpecAuth.
MaxAuthCalls == 3
\* Calls that change the nil project, and calls in all, in one behaviour of
\* SpecAdmin, which issues them one at a time.
MaxSetupCalls == 2
MaxAdminCalls == 3
\* Entities the project of SpecRemove holds: with its other rows, more than one
\* batch of deletions.
ManyEntities == 25
\* How deep a schema type nests sets and records.
MaxTypeDepth == 2
\* How deep an entity attribute nests sets and records.
MaxAttrDepth == 1
\* The latest instant a project is created at, and the ticks of an instant that
\* make a millisecond.
MaxInstant == 11
TicksPerMilli == 4

Nil == 0
Projects == 1..MaxProjects
AllProjects == {Nil} \cup Projects
Nodes == 1..NumNodes
TaskIds == 1..MaxTasks

(* --------------------------- value domains ---------------------------- *)

NoneV == "none"

\* EntityUid: (type, id).
Uid(type, id) == [type |-> type, id |-> id]
PROJECT_ENTITY_TYPE == "Cedrus::Project"
TEMPLATE_PROJECT_ADMIN_ROLE == "ProjectAdminRole"
AdminsGroup == Uid("Cedrus::Group", 0)
NilOwner == Uid("Cedrus::User", 0)
User1 == Uid("User", 1)
NoUid == Uid("", 0)
Doc1 == Uid("Doc", 1)

\* Entity: equality of stored rows is by uid (one row per uid).
Ent(uid, parents) == [uid |-> uid, parents |-> parents]

\* Project::entity_uid / Project::entity
entity_uid(id) == Uid(PROJECT_ENTITY_TYPE, id)
entity(project) == Ent(entity_uid(project.id), {})

\* A template link id: format!("{}_{}", project.id, ROLE) has prefix = id;
\* a caller-chosen id has prefix -1.
LinkId(prefix, name) == [prefix |-> prefix, name |-> name]
Link(new_id, template_id, principal, resource) ==
    [new_id |-> new_id, template_id |-> template_id,
     principal |-> principal, resource |-> resource]

\* Project::template_links
template_links(project) ==
    { Link(LinkId(project.id, TEMPLATE_PROJECT_ADMIN_ROLE), TEMPLATE_PROJECT_ADMIN_ROLE,
           project.owner, entity_uid(project.id)) }

\* Schemas a caller can send. "sBad" does not compile.
SchemaTypes(s) ==
    CASE s = "sUD" -> {"User", "Doc"}
      [] s = "sU" -> {"User"}
      [] s = "sNil" -> {"Cedrus::Group", "Cedrus::User", PROJECT_ENTITY_TYPE}
      [] OTHER -> {}
\* Schema::try_into: cedar_policy::Schema::from_json_value
SchemaCompiles(s) == s # "sBad"
\* Entity::to_cedar_entity(schema): type-check against the schema, if any.
EntityChecks(e, s) == s = NoneV \/ e.uid.type \in SchemaTypes(s)

\* A policy or template row: (id, body); body "bad" does not compile.
Row(id, body) == [id |-> id, body |-> body]
PolicySetOf(policies, templates, links) ==
    [static_policies |-> policies, templates |-> templates, template_links |-> links]
EmptyPolicySet == PolicySetOf({}, {}, {})
\* PolicySet::try_into: cedar_policy::PolicySet::from_json_value. Every policy and
\* template must compile and every link must name a template of the set.
PolicySetCompiles(ps) ==
    /\ \A r \in ps.static_policies \cup ps.templates : r.body # "bad"
    /\ \A l \in ps.template_links : \E t \in ps.templates : t.id = l.template_id

\* Keyed collections: one row per key.
UpsertEnt(S, batch) == {x \in S : \A e \in batch : e.uid # x.uid} \cup batch
UpsertRow(S, batch) == {x \in S : \A r \in batch : r.id # x.id} \cup batch
UpsertLink(S, batch) == {x \in S : \A l \in batch : l.new_id # x.new_id} \cup batch
UpsertProject(S, project) == {x \in S : x.id # project.id} \cup {project}

(* ------------------------------ state --------------------------------- *)

VARIABLES
    dbKind,     \* "dynamodb" | "couchdb": the durable-store backend
    deploy,     \* "cluster" (valkey cache and bus) | "single" (dashmap cache, dummy bus)
    db,         \* the durable store: seven collections
    cache,      \* the cache: the same seven collections
    node,       \* node[n]: the materialized state of node n
    tasks,      \* tasks[t]: a management call and its position
    inbox,      \* inbox[n]: events the bus delivered to n's subscriber, not yet taken
    applying,   \* applying[n]: received events whose apply is in progress on n
    dead,       \* dead[n]: n's subscriber task has panicked
    clock,      \* chrono::Utc::now()
    nextId,     \* the next fresh project id
    hist        \* history: what was delivered, applied and redelivered

vars == <<dbKind, deploy, db, cache, node, tasks, inbox, applying, dead, clock, nextId, hist>>

(* ------------------------- the durable store -------------------------- *)

\* A store (the durable store and the cache have the same seven collections).
EmptyStore ==
    [projects |-> {},
     is |-> [p \in AllProjects |-> NoneV],
     schema |-> [p \in AllProjects |-> NoneV],
     entities |-> [p \in AllProjects |-> {}],
     policies |-> [p \in AllProjects |-> {}],
     templates |-> [p \in AllProjects |-> {}],
     links |-> [p \in AllProjects |-> {}]]

\* Database::project_load: Option<Project> as a set of at most one project.
project_load(d, id) == {x \in d.projects : x.id = id}

\* CouchDb::project_remove: removes the project document and nothing else.
couchdb_project_remove(d, id) ==
    [d EXCEPT !.projects = {x \in d.projects : x.id # id}]

\* DynamoDb::project_remove: every row under PK = P#<id>, the nil project's template
\* links whose SK begins with P#<nil>#TL#<id>, and the nil project's entity
\* Cedrus::Project::<id>, in one batch.
dynamodb_project_remove(d, id) ==
    LET own == [d EXCEPT !.projects = {x \in d.projects : x.id # id},
                         !.is[id] = NoneV,
                         !.schema[id] = NoneV,
                         !.entities[id] = {},
                         !.policies[id] = {},
                         !.templates[id] = {},
                         !.links[id] = {}]
    IN  [own EXCEPT !.links[Nil] = {l \in own.links[Nil] : l.new_id.prefix # id},
                    !.entities[Nil] = {e \in own.entities[Nil] : e.uid # entity_uid(id)}]

\* Database::project_remove, by backend.
db_project_remove(kind, d, id) ==
    IF kind = "couchdb" THEN couchdb_project_remove(d, id)
    ELSE dynamodb_project_remove(d, id)

(* ------------------------------ the cache ----------------------------- *)

\* ValKeyCache::project_del: cedrus:p:<id>:*, the project key, the nil project's
\* entity of the project and the nil project's links <id>_*.
valkey_project_del(c, id) ==
    LET own == [c EXCEPT !.projects = {x \in c.projects : x.id # id},
                         !.is[id] = NoneV,
                         !.schema[id] = NoneV,
                         !.entities[id] = {},
                         !.policies[id] = {},
                         !.templates[id] = {},
                         !.links[id] = {}]
    IN  [own EXCEPT !.links[Nil] = {l \in own.links[Nil] : l.new_id.prefix # id},
                    !.entities[Nil] = {e \in own.entities[Nil] : e.uid # entity_uid(id)}]

\* DashMapCache::project_del: removes the project row only.
dashmap_project_del(c, id) ==
    [c EXCEPT !.projects = {x \in c.projects : x.id # id}]

\* Cache::project_del, by implementation.
cache_project_del(dep, c, id) ==
    IF dep = "cluster" THEN valkey_project_del(c, id) ELSE dashmap_project_del(c, id)

\* Cache::project_get_policy_set
project_get_policy_set(c, id) ==
    PolicySetOf(c.policies[id], c.templates[id], c.links[id])

\* Cache::project_get_entities: an empty uid list reads every entity of the project.
project_get_entities(c, id, uids) ==
    IF uids = {} THEN c.entities[id]
    ELSE {e \in c.entities[id] : e.uid \in uids}

(* ---------------------- a node's materialized state ------------------- *)

Absent == "absent"

\* Cedrus::new: five empty concurrent maps.
EmptyNode ==
    [api_keys |-> {},
     authorizers |-> [p \in AllProjects |-> Absent],
     schemas |-> [p \in AllProjects |-> Absent],
     entHas |-> {},
     ents |-> [p \in AllProjects |-> {}],
     polHas |-> {},
     pols |-> [p \in AllProjects |-> EmptyPolicySet]]

\* api_keys.insert(key, owner)
InsertKey(keys, key, owner) ==
    {k \in keys : k.key # key} \cup {[key |-> key, owner |-> owner]}

\* One pass of reload_all's loop body for one cached project: Ok or Err with
\* what was inserted before the failing `?`.
ReloadProject(ns, c, project) ==
    LET id == project.id
        s1 == [ns EXCEPT !.api_keys = InsertKey(@, project.api_key, project.owner),
                         !.authorizers[id] = c.is[id]]
        ps == project_get_policy_set(c, id)
    IN  IF c.schema[id] # NoneV /\ ~SchemaCompiles(c.schema[id])
        THEN [ns |-> s1, ok |-> FALSE]
        ELSE IF ~PolicySetCompiles(ps)
        THEN [ns |-> s1, ok |-> FALSE]
        ELSE [ns |-> [s1 EXCEPT !.schemas[id] = c.schema[id],
                                !.entHas = @ \cup {id},
                                !.ents[id] = c.entities[id],
                                !.polHas = @ \cup {id},
                                !.pols[id] = ps],
              ok |-> TRUE]

\* reload_all over the cached projects in the order projects_get returned them.
RECURSIVE ReloadIn(_, _, _)
ReloadIn(order, ns, c) ==
    IF order = <<>> THEN [ns |-> ns, ok |-> TRUE]
    ELSE LET hit == {x \in c.projects : x.id = Head(order)}
         IN  IF hit = {} THEN ReloadIn(Tail(order), ns, c)
             ELSE LET r == ReloadProject(ns, c, CHOOSE x \in hit : TRUE)
                  IN  IF r.ok THEN ReloadIn(Tail(order), r.ns, c) ELSE r

\* The orders in which projects_get can list the projects (a scan of the key space).
ScanOrders ==
    {o \in [1..Cardinality(AllProjects) -> AllProjects] :
        \A i, j \in DOMAIN o : i # j => o[i] # o[j]}

reload_all(order, ns, c) == ReloadIn(order, ns, c)

(* ------------------------------- events ------------------------------- *)

EventTypes ==
    {"ReloadAll", "ProjectCreate", "ProjectUpdate", "ProjectRemove",
     "ProjectPutIdentitySource", "ProjectRemoveIdentitySource",
     "ProjectPutSchema", "ProjectRemoveSchema",
     "ProjectAddEntities", "ProjectRemoveEntities",
     "ProjectAddPolicies", "ProjectRemovePolicies",
     "ProjectAddTemplates", "ProjectRemoveTemplates",
     "ProjectAddTemplateLinks", "ProjectRemoveTemplateLinks"}

PolicySetEvents ==
    {"ProjectAddPolicies", "ProjectRemovePolicies",
     "ProjectAddTemplates", "ProjectRemoveTemplates",
     "ProjectAddTemplateLinks", "ProjectRemoveTemplateLinks"}

\* Event: sender, EventType and its payload. id names the call that published it.
Event(id, sender, type, p, key, uids) ==
    [id |-> id, sender |-> sender, type |-> type, p |-> p, key |-> key, uids |-> uids]

\* What update reads from the cache at its await, before it touches the node.
NoData == [project |-> {}, str |-> NoneV, ents |-> {}, ps |-> EmptyPolicySet, order |-> <<>>]
Fetch(c, ev, order) ==
    CASE ev.type \in {"ProjectCreate", "ProjectUpdate"} ->
            [NoData EXCEPT !.project = {x \in c.projects : x.id = ev.p}]
      [] ev.type = "ProjectPutIdentitySource" -> [NoData EXCEPT !.str = c.is[ev.p]]
      [] ev.type = "ProjectPutSchema" -> [NoData EXCEPT !.str = c.schema[ev.p]]
      [] ev.type = "ProjectAddEntities" ->
            [NoData EXCEPT !.ents = project_get_entities(c, ev.p, ev.uids)]
      [] ev.type \in PolicySetEvents ->
            [NoData EXCEPT !.ps = project_get_policy_set(c, ev.p)]
      [] ev.type = "ReloadAll" -> [NoData EXCEPT !.order = order]
      [] OTHER -> NoData

\* Events whose apply awaits the cache before it touches the node.
ReadsCache(ev) ==
    ev.type \in {"ReloadAll", "ProjectCreate", "ProjectUpdate", "ProjectPutIdentitySource",
                 "ProjectPutSchema", "ProjectAddEntities"} \cup PolicySetEvents

Ok(ns) == [ns |-> ns, panic |-> FALSE]

\* project_add_entities: get_mut(project_id).unwrap(), then insert each entity.
project_add_entities(ns, id, entities) ==
    IF id \notin ns.entHas THEN [ns |-> ns, panic |-> TRUE]
    ELSE [ns |-> [ns EXCEPT !.ents[id] = UpsertEnt(@, entities)], panic |-> FALSE]

\* project_remove_entities: evict the uids if the project has an index.
project_remove_entities(ns, id, uids) ==
    IF id \in ns.entHas
    THEN [ns EXCEPT !.ents[id] = {e \in @ : e.uid \notin uids}]
    ELSE ns

\* project_set_policy_set: compile what the cache held, insert it for the project.
project_set_policy_set(ns, id, ps) ==
    IF ~PolicySetCompiles(ps) THEN [ns |-> ns, panic |-> TRUE]
    ELSE [ns |-> [ns EXCEPT !.polHas = @ \cup {id}, !.pols[id] = ps], panic |-> FALSE]

\* update's match arm for ProjectCreate.
ApplyProjectCreate(ns, ev, data) ==
    IF data.project = {} THEN Ok(ns)
    ELSE LET project == CHOOSE x \in data.project : TRUE
         IN  Ok([ns EXCEPT !.schemas[ev.p] = NoneV,
                           !.polHas = @ \cup {ev.p},
                           !.pols[ev.p] = EmptyPolicySet,
                           !.entHas = @ \cup {ev.p},
                           !.ents[ev.p] = {},
                           !.api_keys = InsertKey(@, project.api_key, project.owner)])

\* update's match arm for ProjectUpdate.
ApplyProjectUpdate(ns, ev, data) ==
    IF data.project = {} THEN Ok(ns)
    ELSE LET project == CHOOSE x \in data.project : TRUE
         IN  Ok([ns EXCEPT !.api_keys = InsertKey(@, project.api_key, project.owner)])

\* A removal that unwraps what it removes.
StrictProjectRemove(ns, ev) ==
    IF ev.p \notin ns.entHas THEN [ns |-> ns, panic |-> TRUE]
    ELSE Ok([ns EXCEPT !.api_keys = {k \in @ : k.key # ev.key},
                       !.authorizers[ev.p] = Absent,
                       !.schemas[ev.p] = Absent,
                       !.entHas = @ \ {ev.p},
                       !.ents[ev.p] = {},
                       !.polHas = @ \ {ev.p},
                       !.pols[ev.p] = EmptyPolicySet])

\* update's match arm for ProjectRemove.
ApplyProjectRemove(ns, ev) ==
    Ok([ns EXCEPT !.api_keys = {k \in @ : k.key # ev.key},
                  !.authorizers[ev.p] = Absent,
                  !.schemas[ev.p] = Absent,
                  !.entHas = @ \ {ev.p},
                  !.ents[ev.p] = {},
                  !.polHas = @ \ {ev.p},
                  !.pols[ev.p] = EmptyPolicySet])

\* update's match arm for ProjectPutSchema.
ApplyProjectPutSchema(ns, ev, data) ==
    IF data.str # NoneV /\ ~SchemaCompiles(data.str) THEN [ns |-> ns, panic |-> TRUE]
    ELSE Ok([ns EXCEPT !.schemas[ev.p] = data.str])

\* update, after its cache read: the change to the node, and whether an unwrap
\* panicked.
Install(ns, ev, data) ==
    CASE ev.type = "ReloadAll" ->
            LET r == reload_all(data.order, ns, cache) IN [ns |-> r.ns, panic |-> ~r.ok]
      [] ev.type = "ProjectCreate" -> ApplyProjectCreate(ns, ev, data)
      [] ev.type = "ProjectUpdate" -> ApplyProjectUpdate(ns, ev, data)
      [] ev.type = "ProjectRemove" -> ApplyProjectRemove(ns, ev)
      [] ev.type = "ProjectPutIdentitySource" -> Ok([ns EXCEPT !.authorizers[ev.p] = data.str])
      [] ev.type = "ProjectRemoveIdentitySource" -> Ok([ns EXCEPT !.authorizers[ev.p] = NoneV])
      [] ev.type = "ProjectPutSchema" -> ApplyProjectPutSchema(ns, ev, data)
      [] ev.type = "ProjectRemoveSchema" -> Ok([ns EXCEPT !.schemas[ev.p] = NoneV])
      [] ev.type = "ProjectAddEntities" -> project_add_entities(ns, ev.p, data.ents)
      [] ev.type = "ProjectRemoveEntities" -> Ok(project_remove_entities(ns, ev.p, ev.uids))
      [] OTHER -> project_set_policy_set(ns, ev.p, data.ps)

\* update without the sender check.
NeverSuppressed(n, ev, intern) == FALSE

\* update(event, intern): the sender's own event, received from the bus, is skipped.
Suppressed(n, ev, intern) == ~intern /\ ev.sender = n

(* ------------------------------ bootstrap ----------------------------- *)

\* The nil project's seed (config/cedrus.cedarschema.json, cedrus.cedarentities.json,
\* cedrus.cedar.json): the Admins group, the nil owner in it, the admin role template.
SeedSchema == "sNil"
SeedEntities == {Ent(AdminsGroup, {}), Ent(NilOwner, {AdminsGroup})}
SeedTemplates == {Row(TEMPLATE_PROJECT_ADMIN_ROLE, "ok")}
ServerApiKey == 1
ConfigIdentitySource == "is0"

\* Project: the fields the operations read. updated_at is a clock reading.
Project(id, name, api_key, owner, updated_at) ==
    [id |-> id, name |-> name, api_key |-> api_key, owner |-> owner,
     updated_at |-> updated_at]

\* init_project on an empty durable store.
init_project(now) ==
    [EmptyStore EXCEPT
        !.projects = {Project(Nil, "Cedrus Admin Project", ServerApiKey, NilOwner, now)},
        !.schema[Nil] = SeedSchema,
        !.entities[Nil] = SeedEntities,
        !.templates[Nil] = SeedTemplates,
        !.is[Nil] = ConfigIdentitySource]

\* init_cache: for every project of the durable store, clear it in the cache and
\* copy its seven collections.
init_cache(d) ==
    [projects |-> d.projects,
     is |-> [p \in AllProjects |-> IF project_load(d, p) # {} THEN d.is[p] ELSE NoneV],
     schema |-> [p \in AllProjects |-> IF project_load(d, p) # {} THEN d.schema[p] ELSE NoneV],
     entities |-> [p \in AllProjects |-> IF project_load(d, p) # {} THEN d.entities[p] ELSE {}],
     policies |-> [p \in AllProjects |-> IF project_load(d, p) # {} THEN d.policies[p] ELSE {}],
     templates |-> [p \in AllProjects |-> IF project_load(d, p) # {} THEN d.templates[p] ELSE {}],
     links |-> [p \in AllProjects |-> IF project_load(d, p) # {} THEN d.links[p] ELSE {}]]

\* load_cache on a fresh node.
load_cache(c) == reload_all(<<Nil>>, EmptyNode, c).ns

(* -------------------------------- calls ------------------------------- *)

\* What a caller sends with a call; each handler reads its own fields.
NoArg ==
    [name |-> "", api_key |-> 0, updated_at |-> 0, str |-> NoneV,
     ents |-> {}, uids |-> {}, rows |-> {}, links |-> {}, ids |-> {},
     principal |-> NoUid, resource |-> NoUid]

NoEvent == Event(0, 0, "none", 0, 0, {})

\* The accumulator of get_cedar_entities: the entities gathered so far, and the
\* uids get_entity_parents has expanded, in order.
NoWalk == [entities |-> {}, work |-> <<>>]

\* An authorization call also keeps: walk, its accumulator; todo, the uids whose
\* closure it has not taken yet; idx, the entity indexes it has read; evaluated,
\* whether it asked the policy engine. gone: the node had applied the removal of
\* the project named when the call arrived. held: the concurrent maps of the node
\* on which the task holds a guard.
IdleTask ==
    [op |-> "idle", node |-> 0, p |-> 0, arg |-> NoArg, pc |-> "idle", res |-> "",
     log |-> <<>>, data |-> NoData, project |-> {}, snap |-> {}, fresh |-> FALSE,
     clean |-> FALSE, alone |-> FALSE, conc |-> {},
     walk |-> NoWalk, todo |-> {}, idx |-> {}, evaluated |-> FALSE, gone |-> FALSE,
     held |-> {}]

InFlight == {t \in TaskIds : tasks[t].pc \notin {"idle", "done"}}
Done(t) == tasks[t].pc = "done"

\* Nodes that serve requests: every node of a cluster; the one node of a
\* single-node deployment (in-process cache, no bus).
Serving == IF deploy = "cluster" THEN Nodes ELSE {1}

\* Snapshot of what a call could change, taken when it starts.
Snapshot(n) ==
    [db |-> db, cache |-> cache, ns |-> node[n], sent |-> hist.sent,
     runs |-> hist.count[n]]

\* The request is a project_update that carries the stored updated_at and changes
\* the name or the api_key.
Fresh(r, ts) ==
    /\ r.op = "project_update"
    /\ \E x \in project_load(db, r.p) :
        /\ x.updated_at = ts
        /\ x.name # r.arg.name \/ x.api_key # r.arg.api_key

\* A request: the handler, the project it names and what the caller sends.
Req(op, p, a) == [op |-> op, p |-> p, arg |-> a]

\* A request arrives at node n: the next free task starts its handler. The
\* updated_at of a project_update is a timestamp the caller has read before. The
\* nodes start alike, so the first request is taken to arrive at node 1.
Call(requests, maxCalls, maxInFlight) ==
    \E t \in 1..maxCalls, n \in Serving, r \in requests :
      \E ts \in (IF r.op = "project_update" THEN 1..(clock - 1) ELSE {0}) :
        /\ tasks[t].pc = "idle"
        /\ \A u \in TaskIds : u < t => tasks[u].pc # "idle"
        /\ t = 1 => n = 1
        /\ Cardinality(InFlight) < maxInFlight
        /\ r.op = "project_create" => nextId <= MaxProjects
        /\ tasks' = [tasks EXCEPT ![t] =
                        [IdleTask EXCEPT !.op = r.op, !.node = n, !.p = r.p,
                                         !.arg = [r.arg EXCEPT !.updated_at = ts],
                                         !.pc = "start", !.snap = {Snapshot(n)},
                                         !.fresh = Fresh(r, ts),
                                         !.gone = r.p \in hist.removed[n],
                                         !.conc = InFlight]]
        /\ UNCHANGED <<dbKind, deploy, db, cache, node, inbox, applying, dead, clock,
                       nextId, hist>>

\* Handler bookkeeping: move on, or return.
Goto(t, pc, label) ==
    tasks' = [tasks EXCEPT ![t].pc = pc, ![t].log = Append(@, label)]
\* On return the call's snapshot is compared with the present: clean when the
\* stores, the node and the bus are as they were; alone when no other call and no
\* event from the bus ran on them meanwhile.
Return(t, res) ==
    LET was == CHOOSE x \in tasks[t].snap : TRUE
        now == Snapshot(tasks[t].node)
    IN  tasks' = [tasks EXCEPT
            ![t].pc = "done", ![t].res = res, ![t].snap = {},
            ![t].clean = [was EXCEPT !.runs = 0] = [now EXCEPT !.runs = 0],
            ![t].alone = /\ was.runs = now.runs
                         /\ tasks[t].conc = {}
                         /\ InFlight = {t}]

(* ------------------------------- the bus ------------------------------ *)

\* update's body ran on node n for event ev, moving n from ns to r.ns.
Record(h, n, ev, re, r, data) ==
    LET named == ev.type # "ReloadAll" /\ ev.p \in h.removed[n]
        left == \/ r.ns.authorizers[ev.p] # Absent
                \/ r.ns.schemas[ev.p] # Absent
                \/ ev.p \in r.ns.entHas
                \/ ev.p \in r.ns.polHas
    IN  [h EXCEPT
            !.count[n][ev.id] = @ + 1,
            !.removed[n] = IF ev.type = "ProjectRemove" /\ ~r.panic THEN @ \cup {ev.p} ELSE @,
            !.late = IF named
                     THEN @ \cup {[n |-> n, type |-> ev.type, panic |-> r.panic, left |-> left]}
                     ELSE @,
            !.shadow[n] = IF re THEN @ ELSE Install(@, ev, data).ns]

\* pubsub.publish: the valkey bus hands the message to every subscriber, the
\* sender's included; the dummy bus drops it.
Deliver(ev) ==
    IF deploy = "cluster"
    THEN /\ inbox' = [m \in Nodes |->
                        IF dead[m] THEN inbox[m]
                        ELSE Append(inbox[m], [ev |-> ev, re |-> FALSE])]
         /\ hist' = [hist EXCEPT !.sent = @ \cup {ev},
                                 !.delivered = [m \in Nodes |->
                                     IF dead[m] THEN @[m] ELSE Append(@[m], ev.id)]]
    ELSE /\ inbox' = inbox
         /\ hist' = [hist EXCEPT !.sent = @ \cup {ev}]

\* publish(message): update(&message, true), then pubsub.publish(message).
publish(t, ev) ==
    LET n == tasks[t].node IN
    \/ /\ tasks[t].pc = "fetch"
       /\ tasks' = [tasks EXCEPT ![t].pc = "install",
                                 ![t].data = Fetch(cache, ev, <<>>)]
       /\ UNCHANGED <<dbKind, deploy, db, cache, node, inbox, applying, dead, clock,
                      nextId, hist>>
    \/ /\ tasks[t].pc = "install"
       /\ LET r == IF Suppressed(n, ev, TRUE) THEN Ok(node[n])
                   ELSE Install(node[n], ev, tasks[t].data)
          IN  /\ node' = [node EXCEPT ![n] = r.ns]
              /\ hist' = Record(hist, n, ev, FALSE, r, tasks[t].data)
              /\ IF r.panic THEN Return(t, "panic") ELSE Goto(t, "send", "local")
       /\ UNCHANGED <<dbKind, deploy, db, cache, inbox, applying, dead, clock, nextId>>
    \/ /\ tasks[t].pc = "send"
       /\ Deliver(ev)
       /\ tasks' = [tasks EXCEPT ![t].pc = "done", ![t].res = "ok", ![t].snap = {},
                                 ![t].log = Append(@, "publish")]
       /\ UNCHANGED <<dbKind, deploy, db, cache, node, applying, dead, clock, nextId>>

\* Where publish starts for an event of this type.
PublishPc(type) == IF ReadsCache([type |-> type]) THEN "fetch" ELSE "install"

\* A subscriber that spawns the closure for each message instead of awaiting it.
AlwaysReady(n) == TRUE

\* The subscriber loop is back at rx.recv(): no apply is in progress.
SubscriberReady(n) == applying[n] = <<>>

\* The subscriber takes the next message and starts subscribe_closure on it.
Recv(n) ==
    /\ ~dead[n]
    /\ inbox[n] # <<>>
    /\ SubscriberReady(n)
    /\ \E order \in (IF Head(inbox[n]).ev.type = "ReloadAll" THEN ScanOrders ELSE {<<>>}) :
       LET m == Head(inbox[n]) IN
        /\ inbox' = [inbox EXCEPT ![n] = Tail(@)]
        /\ IF Suppressed(n, m.ev, FALSE)
           THEN /\ hist' = [hist EXCEPT !.applied[n] = Append(@, m.ev.id),
                                        !.skipped[n] = @ \cup {m.ev.id}]
                /\ UNCHANGED applying
           ELSE /\ applying' = [applying EXCEPT ![n] =
                                  Append(@, [ev |-> m.ev, re |-> m.re,
                                             data |-> Fetch(cache, m.ev, order)])]
                /\ UNCHANGED hist
    /\ UNCHANGED <<dbKind, deploy, db, cache, node, tasks, dead, clock, nextId>>

\* An apply in progress on n runs to its end (or to its panic).
Apply(n) ==
    \E i \in DOMAIN applying[n] :
        LET a == applying[n][i]
            r == Install(node[n], a.ev, a.data)
        IN  /\ node' = [node EXCEPT ![n] = r.ns]
            /\ applying' = [applying EXCEPT ![n] =
                               [j \in 1..(Len(@) - 1) |-> IF j < i THEN @[j] ELSE @[j + 1]]]
            /\ dead' = [dead EXCEPT ![n] = r.panic]
            /\ hist' = [Record(hist, n, a.ev, a.re, r, a.data)
                           EXCEPT !.applied[n] = Append(@, a.ev.id)]
            /\ UNCHANGED <<dbKind, deploy, db, cache, tasks, inbox, clock, nextId>>

\* The bus delivers again a message n has already applied.
Redeliver(n) ==
    /\ ~dead[n]
    /\ hist.redelivered < MaxRedeliver
    /\ \E ev \in hist.sent :
        /\ ev.sender # n
        /\ \E i \in DOMAIN hist.applied[n] : hist.applied[n][i] = ev.id
        /\ inbox' = [inbox EXCEPT ![n] = Append(@, [ev |-> ev, re |-> TRUE])]
        /\ hist' = [hist EXCEPT !.redelivered = @ + 1,
                                !.delivered[n] = Append(@, ev.id)]
    /\ UNCHANGED <<dbKind, deploy, db, cache, node, tasks, applying, dead, clock, nextId>>

\* History at start.
InitHist(ns) ==
    [sent |-> {},
     delivered |-> [n \in Nodes |-> <<>>],
     applied |-> [n \in Nodes |-> <<>>],
     skipped |-> [n \in Nodes |-> {}],
     count |-> [n \in Nodes |-> [t \in TaskIds |-> 0]],
     removed |-> [n \in Nodes |-> {}],
     late |-> {},
     redelivered |-> 0,
     shadow |-> [n \in Nodes |-> ns]]

(* ------------------------------ handlers ------------------------------ *)

Others == <<dbKind, deploy, inbox, applying, dead, nextId>>

\* A handler that writes the durable store before it validates.
WriteThenValidate(t, valid, d2, c2, ev) ==
    LET id == tasks[t].p IN
    \/ /\ tasks[t].pc = "start"
       /\ IF project_load(db, id) = {} THEN Return(t, "NotFound") /\ db' = db
          ELSE /\ db' = d2
               /\ IF ~valid
                  THEN LET was == CHOOSE x \in tasks[t].snap : TRUE
                           now == [Snapshot(tasks[t].node) EXCEPT !.db = d2]
                       IN  tasks' = [tasks EXCEPT
                               ![t].pc = "done", ![t].res = "invalid", ![t].snap = {},
                               ![t].clean = [was EXCEPT !.runs = 0] = [now EXCEPT !.runs = 0],
                               ![t].alone = /\ was.runs = now.runs
                                            /\ tasks[t].conc = {}
                                            /\ InFlight = {t}]
                  ELSE Goto(t, "db", "validate")
       /\ UNCHANGED <<Others, cache, node, clock, hist>>
    \/ /\ tasks[t].pc = "db"
       /\ db' = d2
       /\ Goto(t, "cache", "db")
       /\ UNCHANGED <<Others, cache, node, clock, hist>>
    \/ /\ tasks[t].pc = "cache"
       /\ cache' = c2
       /\ Goto(t, PublishPc(ev.type), "cache")
       /\ UNCHANGED <<Others, db, node, clock, hist>>
    \/ publish(t, ev)

\* The shape shared by the handlers of a project's data: load the project and
\* validate against the durable store; write the durable store; write the cache;
\* publish.
Mutation(t, valid, d2, c2, ev) ==
    LET id == tasks[t].p IN
    \/ /\ tasks[t].pc = "start"
       /\ IF project_load(db, id) = {} THEN Return(t, "NotFound")
          ELSE IF ~valid THEN Return(t, "invalid")
          ELSE Goto(t, "db", "validate")
       /\ UNCHANGED <<Others, db, cache, node, clock, hist>>
    \/ /\ tasks[t].pc = "db"
       /\ db' = d2
       /\ Goto(t, "cache", "db")
       /\ UNCHANGED <<Others, cache, node, clock, hist>>
    \/ /\ tasks[t].pc = "cache"
       /\ cache' = c2
       /\ Goto(t, PublishPc(ev.type), "cache")
       /\ UNCHANGED <<Others, db, node, clock, hist>>
    \/ publish(t, ev)

\* project_add_policy_set: the stored policy set with the additions merged in compiles.
project_add_policy_set(d, id, policies, templates, links) ==
    PolicySetCompiles(PolicySetOf(UpsertRow(d.policies[id], policies),
                                  UpsertRow(d.templates[id], templates),
                                  UpsertLink(d.links[id], links)))

\* project_remove_policy_set: the stored policy set without the removals compiles.
project_remove_policy_set(d, id, policy_ids, template_ids, link_ids) ==
    PolicySetCompiles(PolicySetOf({r \in d.policies[id] : r.id \notin policy_ids},
                                  {r \in d.templates[id] : r.id \notin template_ids},
                                  {l \in d.links[id] : l.new_id \notin link_ids}))

project_identity_source_update(t) ==
    LET id == tasks[t].p  a == tasks[t].arg IN
    /\ tasks[t].op = "project_identity_source_update"
    /\ Mutation(t, TRUE,
                [db EXCEPT !.is[id] = a.str],
                [cache EXCEPT !.is[id] = a.str],
                Event(t, tasks[t].node, "ProjectPutIdentitySource", id, 0, {}))

project_identity_source_remove(t) ==
    LET id == tasks[t].p IN
    /\ tasks[t].op = "project_identity_source_remove"
    /\ Mutation(t, TRUE,
                [db EXCEPT !.is[id] = NoneV],
                [cache EXCEPT !.is[id] = NoneV],
                Event(t, tasks[t].node, "ProjectRemoveIdentitySource", id, 0, {}))

project_schema_update(t) ==
    LET id == tasks[t].p  a == tasks[t].arg IN
    /\ tasks[t].op = "project_schema_update"
    /\ Mutation(t, /\ SchemaCompiles(a.str)
                   /\ \A e \in db.entities[id] : EntityChecks(e, a.str),
                [db EXCEPT !.schema[id] = a.str],
                [cache EXCEPT !.schema[id] = a.str],
                Event(t, tasks[t].node, "ProjectPutSchema", id, 0, {}))

project_schema_remove(t) ==
    LET id == tasks[t].p IN
    /\ tasks[t].op = "project_schema_remove"
    /\ Mutation(t, TRUE,
                [db EXCEPT !.schema[id] = NoneV],
                [cache EXCEPT !.schema[id] = NoneV],
                Event(t, tasks[t].node, "ProjectRemoveSchema", id, 0, {}))

project_entities_add(t) ==
    LET id == tasks[t].p  a == tasks[t].arg IN
    /\ tasks[t].op = "project_entities_add"
    /\ Mutation(t, /\ db.schema[id] # NoneV => SchemaCompiles(db.schema[id])
                   /\ \A e \in a.ents : EntityChecks(e, db.schema[id]),
                [db EXCEPT !.entities[id] = UpsertEnt(@, a.ents)],
                [cache EXCEPT !.entities[id] = UpsertEnt(@, a.ents)],
                Event(t, tasks[t].node, "ProjectAddEntities", id, 0,
                      {e.uid : e \in a.ents}))

project_policies_add(t) ==
    LET id == tasks[t].p  a == tasks[t].arg IN
    /\ tasks[t].op = "project_policies_add"
    /\ Mutation(t, project_add_policy_set(db, id, a.rows, {}, {}),
                [db EXCEPT !.policies[id] = UpsertRow(@, a.rows)],
                [cache EXCEPT !.policies[id] = UpsertRow(@, a.rows)],
                Event(t, tasks[t].node, "ProjectAddPolicies", id, 0, {}))

project_policies_remove(t) ==
    LET id == tasks[t].p  a == tasks[t].arg IN
    /\ tasks[t].op = "project_policies_remove"
    /\ Mutation(t, project_remove_policy_set(db, id, a.ids, {}, {}),
                [db EXCEPT !.policies[id] = {r \in @ : r.id \notin a.ids}],
                [cache EXCEPT !.policies[id] = {r \in @ : r.id \notin a.ids}],
                Event(t, tasks[t].node, "ProjectRemovePolicies", id, 0, {}))

project_templates_add(t) ==
    LET id == tasks[t].p  a == tasks[t].arg IN
    /\ tasks[t].op = "project_templates_add"
    /\ Mutation(t, project_add_policy_set(db, id, {}, a.rows, {}),
                [db EXCEPT !.templates[id] = UpsertRow(@, a.rows)],
                [cache EXCEPT !.templates[id] = UpsertRow(@, a.rows)],
                Event(t, tasks[t].node, "ProjectAddTemplates", id, 0, {}))

project_templates_remove(t) ==
    LET id == tasks[t].p  a == tasks[t].arg IN
    /\ tasks[t].op = "project_templates_remove"
    /\ Mutation(t, project_remove_policy_set(db, id, {}, a.ids, {}),
                [db EXCEPT !.templates[id] = {r \in @ : r.id \notin a.ids}],
                [cache EXCEPT !.templates[id] = {r \in @ : r.id \notin a.ids}],
                Event(t, tasks[t].node, "ProjectRemoveTemplates", id, 0, {}))

project_template_links_add(t) ==
    LET id == tasks[t].p  a == tasks[t].arg IN
    /\ tasks[t].op = "project_template_links_add"
    /\ Mutation(t, project_add_policy_set(db, id, {}, {}, a.links),
                [db EXCEPT !.links[id] = UpsertLink(@, a.links)],
                [cache EXCEPT !.links[id] = UpsertLink(@, a.links)],
                Event(t, tasks[t].node, "ProjectAddTemplateLinks", id, 0, {}))

project_template_links_remove(t) ==
    LET id == tasks[t].p  a == tasks[t].arg IN
    /\ tasks[t].op = "project_template_links_remove"
    /\ Mutation(t, project_remove_policy_set(db, id, {}, {}, a.ids),
                [db EXCEPT !.links[id] = {l \in @ : l.new_id \notin a.ids}],
                [cache EXCEPT !.links[id] = {l \in @ : l.new_id \notin a.ids}],
                Event(t, tasks[t].node, "ProjectRemoveTemplateLinks", id, 0, {}))

\* project_entities_remove: durable store, then the node's own index, then the
\* cache, then publish.
project_entities_remove(t) ==
    LET id == tasks[t].p  a == tasks[t].arg  n == tasks[t].node
        ev == Event(t, n, "ProjectRemoveEntities", id, 0, a.uids)
    IN
    /\ tasks[t].op = "project_entities_remove"
    /\ \/ /\ tasks[t].pc = "start"
          /\ IF project_load(db, id) = {} THEN Return(t, "NotFound")
             ELSE Goto(t, "db", "validate")
          /\ UNCHANGED <<Others, db, cache, node, clock, hist>>
       \/ /\ tasks[t].pc = "db"
          /\ db' = [db EXCEPT !.entities[id] = {e \in @ : e.uid \notin a.uids}]
          /\ node' = [node EXCEPT ![n] = project_remove_entities(@, id, a.uids)]
          /\ tasks' = [tasks EXCEPT ![t].pc = "cache",
                                    ![t].log = @ \o <<"db", "local">>]
          /\ UNCHANGED <<Others, cache, clock, hist>>
       \/ /\ tasks[t].pc = "cache"
          /\ cache' = [cache EXCEPT !.entities[id] = {e \in @ : e.uid \notin a.uids}]
          /\ Goto(t, PublishPc(ev.type), "cache")
          /\ UNCHANGED <<Others, db, node, clock, hist>>
       \/ publish(t, ev)

\* The caller of project_create (the principal the route authenticated).
Caller == NilOwner
\* rand::fill: a generated key is unlike any key a caller sends.
GeneratedKey(id) == 100 + id

\* projects_post and project_create: a fresh id; the project row, the nil project's
\* entity for it and the owner's admin link, each to the durable store and then
\* to the cache; publish.
project_create(t) ==
    LET a == tasks[t].arg  n == tasks[t].node
        project == CHOOSE x \in tasks[t].project : TRUE
        id == tasks[t].p
        ev == Event(t, n, "ProjectCreate", id, 0, {})
    IN
    /\ tasks[t].op = "project_create"
    /\ \/ /\ tasks[t].pc = "start"
          /\ LET new == Project(nextId, a.name,
                                IF a.api_key = 0 THEN GeneratedKey(nextId) ELSE a.api_key,
                                Caller, clock)
             IN  /\ db' = [db EXCEPT !.projects = UpsertProject(@, new)]
                 /\ tasks' = [tasks EXCEPT ![t].p = nextId, ![t].project = {new},
                                           ![t].pc = "cache",
                                           ![t].log = <<"validate", "db">>]
          /\ nextId' = nextId + 1
          /\ clock' = clock + 1
          /\ UNCHANGED <<dbKind, deploy, inbox, applying, dead, cache, node, hist>>
       \/ /\ tasks[t].pc = "cache"
          /\ cache' = [cache EXCEPT !.projects = UpsertProject(@, project)]
          /\ Goto(t, "db_entity", "cache")
          /\ UNCHANGED <<Others, db, node, clock, hist>>
       \/ /\ tasks[t].pc = "db_entity"
          /\ db' = [db EXCEPT !.entities[Nil] = UpsertEnt(@, {entity(project)})]
          /\ Goto(t, "cache_entity", "db")
          /\ UNCHANGED <<Others, cache, node, clock, hist>>
       \/ /\ tasks[t].pc = "cache_entity"
          /\ cache' = [cache EXCEPT !.entities[Nil] = UpsertEnt(@, {entity(project)})]
          /\ Goto(t, "db_links", "cache")
          /\ UNCHANGED <<Others, db, node, clock, hist>>
       \/ /\ tasks[t].pc = "db_links"
          /\ db' = [db EXCEPT !.links[Nil] = UpsertLink(@, template_links(project))]
          /\ Goto(t, "cache_links", "db")
          /\ UNCHANGED <<Others, cache, node, clock, hist>>
       \/ /\ tasks[t].pc = "cache_links"
          /\ cache' = [cache EXCEPT !.links[Nil] = UpsertLink(@, template_links(project))]
          /\ Goto(t, PublishPc(ev.type), "cache")
          /\ UNCHANGED <<Others, db, node, clock, hist>>
       \/ publish(t, ev)

\* project_update: load, compare updated_at, merge name and api_key, and when
\* something changed save, set the cache and publish.
project_update(t) ==
    LET a == tasks[t].arg  n == tasks[t].node  id == tasks[t].p
        ev == Event(t, n, "ProjectUpdate", id, 0, {})
    IN
    /\ tasks[t].op = "project_update"
    /\ \/ /\ tasks[t].pc = "start"
          /\ IF project_load(db, id) = {}
             THEN Return(t, "NotFound") /\ clock' = clock
             ELSE LET original == CHOOSE x \in project_load(db, id) : TRUE
                      pristine == original.name = a.name /\ original.api_key = a.api_key
                  IN  IF original.updated_at # a.updated_at
                      THEN Return(t, "BadRequest") /\ clock' = clock
                      ELSE IF pristine
                      THEN /\ tasks' = [tasks EXCEPT ![t].pc = "done", ![t].res = "ok",
                                                     ![t].snap = {},
                                                     ![t].project = {original}]
                           /\ clock' = clock + 1
                      ELSE /\ tasks' = [tasks EXCEPT
                                    ![t].pc = "db", ![t].log = <<"validate">>,
                                    ![t].project = {[original EXCEPT !.name = a.name,
                                                        !.api_key = a.api_key,
                                                        !.updated_at = clock]}]
                           /\ clock' = clock + 1
          /\ UNCHANGED <<Others, db, cache, node, hist>>
       \/ /\ tasks[t].pc = "db"
          /\ db' = [db EXCEPT !.projects =
                        UpsertProject(@, CHOOSE x \in tasks[t].project : TRUE)]
          /\ Goto(t, "cache", "db")
          /\ UNCHANGED <<Others, cache, node, clock, hist>>
       \/ /\ tasks[t].pc = "cache"
          /\ cache' = [cache EXCEPT !.projects =
                        UpsertProject(@, CHOOSE x \in tasks[t].project : TRUE)]
          /\ Goto(t, PublishPc(ev.type), "cache")
          /\ UNCHANGED <<Others, db, node, clock, hist>>
       \/ publish(t, ev)

\* A route that refuses no id.
never_nil(id) == FALSE

\* projects_id_delete's id.is_nil()
is_nil(id) == id = Nil

\* projects_id_delete and project_remove: the nil project is refused; load; remove
\* from the durable store; delete from the cache; publish.
project_remove(t) ==
    LET n == tasks[t].node  id == tasks[t].p
        key == IF tasks[t].project = {} THEN 0
               ELSE (CHOOSE x \in tasks[t].project : TRUE).api_key
        ev == Event(t, n, "ProjectRemove", id, key, {})
    IN
    /\ tasks[t].op = "project_remove"
    /\ \/ /\ tasks[t].pc = "start"
          /\ IF is_nil(id) THEN Return(t, "Forbidden")
             ELSE IF project_load(db, id) = {} THEN Return(t, "NotFound")
             ELSE tasks' = [tasks EXCEPT ![t].pc = "db", ![t].log = <<"validate">>,
                                         ![t].project = project_load(db, id)]
          /\ UNCHANGED <<Others, db, cache, node, clock, hist>>
       \/ /\ tasks[t].pc = "db"
          /\ db' = db_project_remove(dbKind, db, id)
          /\ Goto(t, "cache", "db")
          /\ UNCHANGED <<Others, cache, node, clock, hist>>
       \/ /\ tasks[t].pc = "cache"
          /\ cache' = cache_project_del(deploy, cache, id)
          /\ Goto(t, PublishPc(ev.type), "cache")
          /\ UNCHANGED <<Others, db, node, clock, hist>>
       \/ publish(t, ev)

(* --------------------------- specifications --------------------------- *)

\* After main: the nil project seeded, the cache loaded from the durable store,
\* every node loaded from the cache, every subscriber waiting.
Boot(kinds, deploys) ==
    /\ dbKind \in kinds
    /\ deploy \in deploys
    /\ db = init_project(1)
    /\ cache = init_cache(db)
    /\ node = [n \in Nodes |-> load_cache(cache)]
    /\ tasks = [t \in TaskIds |-> IdleTask]
    /\ inbox = [n \in Nodes |-> <<>>]
    /\ applying = [n \in Nodes |-> <<>>]
    /\ dead = [n \in Nodes |-> FALSE]
    /\ clock = 2
    /\ nextId = 1
    /\ hist = InitHist(load_cache(cache))

Subscribers == \E n \in Nodes : Recv(n) \/ Apply(n)

\* Projects: create, update and remove on one node, on either backend.
ProjectRequests ==
    {Req("project_create", 0, [NoArg EXCEPT !.name = "a", !.api_key = 2]),
     Req("project_remove", 1, NoArg),
     Req("project_update", 1, [NoArg EXCEPT !.name = "b", !.api_key = 2]),
     Req("project_update", 1, [NoArg EXCEPT !.name = "a", !.api_key = 3]),
     Req("project_entities_add", 1, [NoArg EXCEPT !.ents = {Ent(Doc1, {})}])}
InitProject == Boot({"dynamodb", "couchdb"}, {"single"})
NextProject ==
    \/ Call(ProjectRequests, MaxTasks, MaxInFlight)
    \/ \E t \in TaskIds : project_create(t)
    \/ \E t \in TaskIds : project_update(t)
    \/ \E t \in TaskIds : project_remove(t)
    \/ \E t \in TaskIds : project_entities_add(t)
SpecProject == InitProject /\ [][NextProject]_vars

\* The durable store holds nothing of project id: no project row, identity source,
\* schema, entity, policy, template or link of its own, and in the nil project
\* neither its entity nor a link made for it.
HoldsNothing(d, id) ==
    /\ project_load(d, id) = {}
    /\ d.is[id] = NoneV
    /\ d.schema[id] = NoneV
    /\ d.entities[id] = {}
    /\ d.policies[id] = {}
    /\ d.templates[id] = {}
    /\ d.links[id] = {}
    /\ \A e \in d.entities[Nil] : e.uid # entity_uid(id)
    /\ \A l \in d.links[Nil] : l.new_id.prefix # id

\* Call t overlapped no other call.
Alone(t) == tasks[t].conc = {} /\ \A u \in TaskIds : t \notin tasks[u].conc

\* C1: once project_remove(P) has returned success for a non-nil P, the durable store
\* holds nothing of P, and the nil project holds neither the entity
\* Cedrus::Project::<P> nor a template link whose id begins with "<P>_" (stated for
\* a removal that no other call overlaps).
C1_RemoveLeavesNothing ==
    \A t \in TaskIds :
        (tasks[t].op = "project_remove" /\ Done(t) /\ tasks[t].res = "ok"
            /\ tasks[t].p # Nil /\ Alone(t))
        => HoldsNothing(db, tasks[t].p)

\* The same on the DynamoDB backend alone, where project_remove cascades.
C1_DynamoDbRemoveLeavesNothing ==
    dbKind = "dynamodb" => C1_RemoveLeavesNothing

\* C2: of two concurrent project_update calls for one project that both carry the
\* stored updated_at and both change the name or the api_key, exactly one succeeds
\* and the other is refused with a conflict.
C2_OneConcurrentUpdateWins ==
    \A t, u \in TaskIds :
        (/\ t \in tasks[u].conc
         /\ tasks[t].fresh /\ tasks[u].fresh
         /\ tasks[t].p = tasks[u].p
         /\ tasks[t].arg.updated_at = tasks[u].arg.updated_at
         /\ Done(t) /\ Done(u))
        => {tasks[t].res, tasks[u].res} = {"ok", "BadRequest"}

(* ------------------------------ the cluster --------------------------- *)

\* A cluster of nodes behind the shared cache and the bus: a project is created,
\* filled and removed while the other node's subscriber follows.
ClusterRequests ==
    {Req("project_create", 0, [NoArg EXCEPT !.name = "a", !.api_key = 2]),
     Req("project_remove", 1, NoArg),
     Req("project_entities_add", 1, [NoArg EXCEPT !.ents = {Ent(Doc1, {})}])}
InitCluster == Boot({"dynamodb"}, {"cluster"})
NextCluster ==
    \/ Call(ClusterRequests, MaxTasks, MaxInFlight)
    \/ \E t \in TaskIds : project_create(t)
    \/ \E t \in TaskIds : project_remove(t)
    \/ \E t \in TaskIds : project_entities_add(t)
    \/ \E n \in Nodes : Recv(n)
    \/ \E n \in Nodes : Apply(n)
SpecCluster == InitCluster /\ [][NextCluster]_vars

\* Every call has returned without a panic and every subscriber has applied all it
\* was sent.
Quiet ==
    /\ \A t \in TaskIds : tasks[t].pc \in {"idle", "done"} /\ tasks[t].res # "panic"
    /\ \A n \in Nodes : inbox[n] = <<>> /\ applying[n] = <<>> /\ ~dead[n]

\* What a node built from the cache alone holds.
Compiled(c) == reload_all(<<Nil>> \o [i \in 1..MaxProjects |-> i], EmptyNode, c).ns

\* The schema, entity index, policy set and authorizer of every project (a missing
\* authorizer entry and an entry holding no authorizer read alike).
View(ns) ==
    [authorizers |-> [p \in AllProjects |->
                        IF ns.authorizers[p] = Absent THEN NoneV ELSE ns.authorizers[p]],
     schemas |-> ns.schemas,
     entHas |-> ns.entHas, ents |-> ns.ents,
     polHas |-> ns.polHas, pols |-> ns.pols]

\* C3: once every mutation has completed and every event has been delivered and
\* applied, each node's schema, entity index, policy set and authorizer of every
\* project equal what compiling the cache's contents gives.
C3_NodesConverge ==
    Quiet => \A n \in Nodes : View(node[n]) = View(Compiled(cache))

\* C8: applying an event that names P on a node that has applied P's removal
\* completes without failure and leaves the node with no schema, entity index,
\* policy set or authorizer entry for P.
C8_LateEventsAreHarmless ==
    \A r \in hist.late : ~r.panic /\ ~r.left

IsPrefix(a, b) == Len(a) <= Len(b) /\ \A i \in DOMAIN a : a[i] = b[i]

\* C10: a node applies the events it receives one at a time, in the order the bus
\* delivered them.
C10_OneAtATimeInOrder ==
    \A n \in Nodes :
        /\ Len(applying[n]) <= 1
        /\ IsPrefix(hist.applied[n], hist.delivered[n])

\* A node is applying one event while the next one waits, after an earlier one.
C10_Witness ==
    \E n \in Nodes :
        /\ applying[n] # <<>> /\ inbox[n] # <<>>
        /\ hist.applied[n] # <<>>

(* --------------------------- a project's data ------------------------- *)

AdminUser == Uid("Cedrus::User", 1)
RoleLink == Link(LinkId(-1, "l1"), TEMPLATE_PROJECT_ADMIN_ROLE, AdminUser, AdminsGroup)
NoTemplateLink == Link(LinkId(-1, "l2"), "t9", AdminUser, AdminsGroup)

\* Calls on the nil project's data, valid and invalid, one after the other, in a
\* cluster.
DataRequests ==
    {Req("project_schema_update", Nil, [NoArg EXCEPT !.str = "sBad"]),
     Req("project_schema_update", Nil, [NoArg EXCEPT !.str = "sU"]),
     Req("project_schema_update", Nil, [NoArg EXCEPT !.str = "sNil"]),
     Req("project_schema_remove", Nil, NoArg),
     Req("project_entities_add", Nil, [NoArg EXCEPT !.ents = {Ent(User1, {})}]),
     Req("project_entities_add", Nil, [NoArg EXCEPT !.ents = {Ent(AdminUser, {AdminsGroup})}]),
     Req("project_entities_remove", Nil, [NoArg EXCEPT !.uids = {NilOwner}]),
     Req("project_policies_add", Nil, [NoArg EXCEPT !.rows = {Row("p1", "ok")}]),
     Req("project_policies_add", Nil, [NoArg EXCEPT !.rows = {Row("p2", "bad")}]),
     Req("project_policies_remove", Nil, [NoArg EXCEPT !.ids = {"p1"}]),
     Req("project_templates_add", Nil, [NoArg EXCEPT !.rows = {Row("t1", "bad")}]),
     Req("project_templates_add", Nil, [NoArg EXCEPT !.rows = {Row("t2", "ok")}]),
     Req("project_templates_remove", Nil, [NoArg EXCEPT !.ids = {TEMPLATE_PROJECT_ADMIN_ROLE}]),
     Req("project_template_links_add", Nil, [NoArg EXCEPT !.links = {RoleLink}]),
     Req("project_template_links_add", Nil, [NoArg EXCEPT !.links = {NoTemplateLink}]),
     Req("project_template_links_remove", Nil, [NoArg EXCEPT !.ids = {LinkId(-1, "l1")}]),
     Req("project_identity_source_update", Nil, [NoArg EXCEPT !.str = "is1"]),
     Req("project_identity_source_remove", Nil, NoArg),
     Req("project_policies_add", 1, [NoArg EXCEPT !.rows = {Row("p1", "ok")}])}
InitData == Boot({"dynamodb"}, {"cluster"})
NextData ==
    \/ Call(DataRequests, MaxDataCalls, 1)
    \/ \E t \in TaskIds : project_schema_update(t)
    \/ \E t \in TaskIds : project_schema_remove(t)
    \/ \E t \in TaskIds : project_entities_add(t)
    \/ \E t \in TaskIds : project_entities_remove(t)
    \/ \E t \in TaskIds : project_policies_add(t)
    \/ \E t \in TaskIds : project_policies_remove(t)
    \/ \E t \in TaskIds : project_templates_add(t)
    \/ \E t \in TaskIds : project_templates_remove(t)
    \/ \E t \in TaskIds : project_template_links_add(t)
    \/ \E t \in TaskIds : project_template_links_remove(t)
    \/ \E t \in TaskIds : project_identity_source_update(t)
    \/ \E t \in TaskIds : project_identity_source_remove(t)
    \/ \E n \in Nodes : Recv(n)
    \/ \E n \in Nodes : Apply(n)
SpecData == InitData /\ [][NextData]_vars

\* The order of one call's steps: validation before every write; a cache write
\* right after the durable write it mirrors; no local change before a cache write;
\* nothing published before the local change.
InOrder(log) ==
    \A i, j \in DOMAIN log :
        i < j =>
            /\ ~(log[i] \in {"db", "cache", "local", "publish"} /\ log[j] = "validate")
            /\ ~(log[i] = "local" /\ log[j] \in {"db", "cache"})
            /\ ~(log[i] = "publish" /\ log[j] \in {"db", "cache", "local"})
            /\ (log[j] = "cache" /\ j = i + 1) => log[i] = "db"

\* C4: every mutating call validates, then writes the durable store, then writes
\* the cache, then changes its node's state, then publishes; the node's state never
\* changes before the cache write of the same call and nothing is published before
\* the node's state changes.
C4_StepsInOrder ==
    \A t \in TaskIds : InOrder(tasks[t].log)

\* C5: when a schema update, an entity add, or a policy, template or link add or
\* remove fails validation, the durable store, the cache and the node's state are
\* as they were before the call and no event is published.
C5_FailedValidationChangesNothing ==
    \A t \in TaskIds :
        (tasks[t].res = "invalid" /\ tasks[t].alone) => tasks[t].clean

\* A template removal refused because a link made earlier names the template, and
\* a second refusal of another kind.
C5_Witness ==
    \E t, u \in TaskIds :
        /\ tasks[t].op = "project_template_links_add" /\ tasks[t].res = "ok"
        /\ tasks[u].op = "project_templates_remove" /\ tasks[u].res = "invalid"
        /\ tasks[u].alone /\ tasks[u].clean

\* Events of every type as another node could have sent them.
AnyEvents ==
    {Event(0, 0, type, p, 0, {}) :
        type \in EventTypes \ {"ProjectRemove", "ProjectAddEntities", "ProjectRemoveEntities"},
        p \in AllProjects}
    \cup {Event(0, 0, "ProjectRemove", p, key, {}) :
            p \in AllProjects, key \in {0, ServerApiKey, 2}}
    \cup {Event(0, 0, type, p, 0, uids) :
            type \in {"ProjectAddEntities", "ProjectRemoveEntities"},
            p \in AllProjects, uids \in {{}, {NilOwner}, {AdminUser}}}

\* update(event, false) as a function of the node and the cache: the node it
\* leaves, and whether it panicked.
Update(ns, c, ev, order) == Install(ns, ev, Fetch(c, ev, order))

\* C7: for every event type and every node state, with the cache held fixed,
\* applying an event twice in succession leaves what applying it once leaves.
C7_TwiceIsOnce ==
    \A n \in Nodes, ev \in AnyEvents :
        \A order \in (IF ev.type = "ReloadAll" THEN ScanOrders ELSE {<<>>}) :
            LET once == Update(node[n], cache, ev, order)
            IN  Update(once.ns, cache, ev, order) = once

\* An event from the bus is being applied to a node it changes.
C7_Witness ==
    \E n \in Nodes :
        /\ applying[n] # <<>>
        /\ LET a == applying[n][1]
               once == Install(node[n], a.ev, a.data)
           IN  once.ns # node[n] /\ ~once.panic /\ Install(once.ns, a.ev, a.data) = once

(* ----------------------------- redelivery ---------------------------- *)

\* A cluster whose bus delivers at least once: calls made one at a time, and a
\* message a node has applied may reach it again.
RedeliverRequests ==
    {Req("project_create", 0, [NoArg EXCEPT !.name = "a", !.api_key = 2]),
     Req("project_entities_add", 1, [NoArg EXCEPT !.ents = {Ent(Doc1, {})}]),
     Req("project_entities_remove", 1, [NoArg EXCEPT !.uids = {Doc1}])}
InitRedeliver == Boot({"dynamodb"}, {"cluster"})
NextRedeliver ==
    \/ Call(RedeliverRequests, MaxTasks, 1)
    \/ \E t \in TaskIds : project_create(t)
    \/ \E t \in TaskIds : project_entities_add(t)
    \/ \E t \in TaskIds : project_entities_remove(t)
    \/ \E n \in Nodes : Recv(n)
    \/ \E n \in Nodes : Apply(n)
    \/ \E n \in Nodes : Redeliver(n)
SpecRedeliver == InitRedeliver /\ [][NextRedeliver]_vars

\* C6: when an event a node has already applied is delivered to it again later in
\* the stream, the node ends in the state it would have ended in had every event
\* been delivered exactly once.
C6_RedeliveryIsHarmless ==
    (Quiet /\ hist.redelivered > 0) => \A n \in Nodes : node[n] = hist.shadow[n]

(* ------------------------- read your own writes ----------------------- *)

\* The api_keys entry of a project.
KeyOf(project) == [key |-> project.api_key, owner |-> project.owner]

\* What the mutation of call c (a task record) leaves in the state of a node
\* that reflects it: every object the call wrote to the durable store and the
\* cache, as the node materializes it.
Reflects(ns, c) ==
    LET id == c.p  a == c.arg IN
    CASE c.op = "project_create" ->
            /\ id \in ns.entHas /\ id \in ns.polHas /\ ns.schemas[id] # Absent
            /\ \A x \in c.project :
                /\ KeyOf(x) \in ns.api_keys
                /\ entity(x) \in ns.ents[Nil]
                /\ template_links(x) \subseteq ns.pols[Nil].template_links
      [] c.op = "project_update" -> \A x \in c.project : KeyOf(x) \in ns.api_keys
      [] c.op = "project_remove" ->
            /\ id \notin ns.entHas /\ id \notin ns.polHas
            /\ ns.schemas[id] = Absent /\ ns.authorizers[id] = Absent
            /\ \A x \in c.project : \A k \in ns.api_keys : k.key # x.api_key
            /\ \A e \in ns.ents[Nil] : e.uid # entity_uid(id)
            /\ \A l \in ns.pols[Nil].template_links : l.new_id.prefix # id
      [] c.op = "project_identity_source_update" -> ns.authorizers[id] = a.str
      [] c.op = "project_identity_source_remove" -> ns.authorizers[id] = NoneV
      [] c.op = "project_schema_update" -> ns.schemas[id] = a.str
      [] c.op = "project_schema_remove" -> ns.schemas[id] = NoneV
      [] c.op = "project_entities_add" -> a.ents \subseteq ns.ents[id]
      [] c.op = "project_entities_remove" -> \A e \in ns.ents[id] : e.uid \notin a.uids
      [] c.op = "project_policies_add" -> a.rows \subseteq ns.pols[id].static_policies
      [] c.op = "project_policies_remove" ->
            \A r \in ns.pols[id].static_policies : r.id \notin a.ids
      [] c.op = "project_templates_add" -> a.rows \subseteq ns.pols[id].templates
      [] c.op = "project_templates_remove" ->
            \A r \in ns.pols[id].templates : r.id \notin a.ids
      [] c.op = "project_template_links_add" ->
            a.links \subseteq ns.pols[id].template_links
      [] c.op = "project_template_links_remove" ->
            \A l \in ns.pols[id].template_links : l.new_id \notin a.ids
      [] OTHER -> TRUE

\* Call t returns success in this step.
ReturnsOk(t) == tasks[t].res # "ok" /\ tasks'[t].res = "ok"

\* C11: in the step in which a mutating call returns success, its node's state
\* reflects the call's mutation, so an authorization started on that node after
\* the return reads the new state.
C11_SuccessMeansApplied ==
    [][\A t \in TaskIds :
          ReturnsOk(t) => Reflects(node'[tasks[t].node], tasks'[t])]_vars

\* The statement for the calls on one project's data (schema, entities, policy
\* set, identity source) and project_update alone.
C11_DataCallsApplied ==
    [][\A t \in TaskIds :
          (ReturnsOk(t) /\ tasks[t].op \notin {"project_create", "project_remove"})
          => Reflects(node'[tasks[t].node], tasks'[t])]_vars

(* ------------------- a project and its nil-project rows --------------- *)

\* Store d holds, in the nil project, the entity of project x and a link of the
\* admin-role template from x's owner to that entity.
HasEntityAndLink(d, x) ==
    /\ \E e \in d.entities[Nil] : e.uid = entity_uid(x.id)
    /\ \E l \in d.links[Nil] :
        /\ l.template_id = TEMPLATE_PROJECT_ADMIN_ROLE
        /\ l.principal = x.owner
        /\ l.resource = entity_uid(x.id)

\* C12: whenever no management call is in progress, for every non-nil project of
\* the durable store the nil project holds the project's entity and an admin-role
\* template link from the project's owner to that entity.
C12_ProjectsHaveEntityAndLink ==
    InFlight = {} =>
        \A x \in db.projects : x.id # Nil => HasEntityAndLink(db, x)

\* C13: once project_remove(P) has returned success, the cache, in-process or
\* distributed, holds no project row, identity source, schema, entity, policy,
\* template or link under P, and in the nil project neither P's entity nor a link
\* made for P (stated for a removal that no other call overlaps).
C13_CacheHoldsNothing ==
    \A t \in TaskIds :
        (tasks[t].op = "project_remove" /\ Done(t) /\ tasks[t].res = "ok"
            /\ tasks[t].p # Nil /\ Alone(t))
        => HoldsNothing(cache, tasks[t].p)

\* The same on the distributed cache alone, whose project_del cascades.
C13_ValkeyHoldsNothing ==
    deploy = "cluster" => C13_CacheHoldsNothing

(* ---------------------------- authorization --------------------------- *)

\* A walk that consults the accumulator only after seven expansions.
Unchecked(st, parent_uid) == Len(st.work) >= 7

\* entities.contains_key(&parent_uid)
Seen(st, parent_uid) == \E e \in st.entities : e.uid = parent_uid

\* get_entity_parents on a project's index (list): an unknown uid is left out; a
\* known one is inserted and each parent not yet gathered is walked in turn. The
\* walk holds the index's read guard from entry to return. The parents are a
\* HashSet: the entities gathered and the number of times each is expanded do not
\* depend on the order in which VisitParents takes them.
RECURSIVE get_entity_parents(_, _, _)
RECURSIVE VisitParents(_, _, _)
get_entity_parents(list, uid, st) ==
    LET value == {e \in list : e.uid = uid} IN
    IF value = {} THEN st
    ELSE LET e == CHOOSE x \in value : TRUE
         IN  VisitParents(list, e.parents,
                          [entities |-> UpsertEnt(st.entities, {e}),
                           work |-> Append(st.work, uid)])

\* A walk that does not follow the parents.
DirectOnly(list, parents, st) == st

\* get_entity_parents' loop over the parents of the entity it inserted.
VisitParents(list, parents, st) ==
    IF parents = {} THEN st
    ELSE LET parent_uid == CHOOSE x \in parents : TRUE
         IN  VisitParents(list, parents \ {parent_uid},
                          IF Seen(st, parent_uid) THEN st
                          ELSE get_entity_parents(list, parent_uid, st))

\* get_cedar_entities' loop: one get_entity_parents per requested uid, in the
\* order the HashSet yields them.
RECURSIVE WalkAll(_, _, _)
WalkAll(list, order, st) ==
    IF order = <<>> THEN st
    ELSE WalkAll(list, Tail(order), get_entity_parents(list, Head(order), st))

\* The orders in which a HashSet of uids can be iterated.
Orders(uids) ==
    {o \in [1..Cardinality(uids) -> uids] : \A i, j \in DOMAIN o : i # j => o[i] # o[j]}

\* get_cedar_entities on a node: the project's index is unwrapped.
get_cedar_entities(ns, id, order) ==
    IF id \notin ns.entHas THEN [panic |-> TRUE, walk |-> NoWalk]
    ELSE [panic |-> FALSE, walk |-> WalkAll(ns.ents[id], order, NoWalk)]

\* The uids an entity set places uid in: uid itself and, through the parents of
\* the entities given, every ancestor.
RECURSIVE ReachFrom(_, _)
ReachFrom(list, uids) ==
    LET next == uids \cup UNION {e.parents : e \in {x \in list : x.uid \in uids}}
    IN  IF next = uids THEN uids ELSE ReachFrom(list, next)

\* cedar_policy::Authorizer::is_authorized, reduced to the template links of the
\* policy set: a link permits its principal slot, and what the entities place in
\* it, on its resource slot, and what the entities place in it.
Evaluate(ps, entities, principal, resource) ==
    IF \E l \in ps.template_links :
          /\ l.principal \in ReachFrom(entities, {principal})
          /\ l.resource \in ReachFrom(entities, {resource})
    THEN "Allow" ELSE "Deny"

\* is_admin: the principal is in the nil project's index and Admins is among its
\* own parents.
is_admin(ns, principal) ==
    /\ Nil \in ns.entHas
    /\ \E e \in ns.ents[Nil] : e.uid = principal /\ AdminsGroup \in e.parents

\* is_allow: the admin short cut, or the nil project's policies over the closure
\* of principal and resource. The result: the decision, whether the policy engine
\* was asked, the walk made, and whether an unwrap panicked.
is_allow(ns, principal, resource, order) ==
    IF is_admin(ns, principal)
    THEN [allow |-> TRUE, evaluated |-> FALSE, walk |-> NoWalk, panic |-> FALSE]
    ELSE LET c == get_cedar_entities(ns, Nil, order) IN
         IF c.panic \/ Nil \notin ns.polHas
         THEN [allow |-> FALSE, evaluated |-> FALSE, walk |-> c.walk, panic |-> TRUE]
         ELSE [allow |-> Evaluate(ns.pols[Nil], c.walk.entities, principal, resource)
                            = "Allow",
               evaluated |-> TRUE, walk |-> c.walk, panic |-> FALSE]

\* A management route's check, as a call of its own: is_allow(principal, action,
\* resource) on the node's nil project.
allow(t) ==
    LET a == tasks[t].arg  ns == node[tasks[t].node] IN
    /\ tasks[t].op = "is_allow"
    /\ tasks[t].pc = "start"
    /\ \E order \in Orders({a.principal, a.resource}) :
        LET r == is_allow(ns, a.principal, a.resource, order) IN
        tasks' = [tasks EXCEPT
                    ![t].pc = "done", ![t].snap = {},
                    ![t].res = IF r.panic THEN "panic"
                               ELSE IF r.allow THEN "Allow" ELSE "Deny",
                    ![t].walk = r.walk,
                    ![t].idx = {ns.ents[Nil]},
                    ![t].evaluated = r.evaluated]
    /\ UNCHANGED <<Others, db, cache, node, clock, hist>>

\* Request::new with the project's schema, if any: the request is checked
\* against it and the result unwrapped.
RequestChecks(schema, principal, resource) ==
    schema = NoneV \/ {principal.type, resource.type} \subseteq SchemaTypes(schema)

\* projects_id_is_authorized_post and is_authorized: the caller is checked with
\* is_allow; then the closure of principal and of resource, one uid at a time; the
\* project's schema; the project's policy set and the decision. Each unwrap of a
\* missing entry panics.
is_authorized(t) ==
    LET a == tasks[t].arg  id == tasks[t].p  ns == node[tasks[t].node] IN
    /\ tasks[t].op = "is_authorized"
    /\ \/ /\ tasks[t].pc = "start"
          /\ \E order \in Orders({Caller, entity_uid(id)}) :
              LET r == is_allow(ns, Caller, entity_uid(id), order) IN
              IF r.panic THEN Return(t, "panic")
              ELSE IF ~r.allow THEN Return(t, "Forbidden")
              ELSE tasks' = [tasks EXCEPT ![t].pc = "closure",
                                          ![t].todo = {a.principal, a.resource}]
       \/ /\ tasks[t].pc = "closure"
          /\ \E uid \in tasks[t].todo :
              IF id \notin ns.entHas THEN Return(t, "panic")
              ELSE tasks' = [tasks EXCEPT
                      ![t].walk = get_entity_parents(ns.ents[id], uid, @),
                      ![t].idx = @ \cup {ns.ents[id]},
                      ![t].todo = @ \ {uid},
                      ![t].pc = IF tasks[t].todo = {uid} THEN "schema" ELSE "closure"]
       \/ /\ tasks[t].pc = "schema"
          /\ IF ns.schemas[id] = Absent THEN Return(t, "panic")
             ELSE IF ~RequestChecks(ns.schemas[id], a.principal, a.resource)
             THEN Return(t, "panic")
             ELSE tasks' = [tasks EXCEPT ![t].pc = "policies"]
       \/ /\ tasks[t].pc = "policies"
          /\ IF id \notin ns.polHas THEN Return(t, "panic")
             ELSE tasks' = [tasks EXCEPT
                     ![t].pc = "done", ![t].snap = {}, ![t].evaluated = TRUE,
                     ![t].res = Evaluate(ns.pols[id], tasks[t].walk.entities,
                                         a.principal, a.resource)]
    /\ UNCHANGED <<Others, db, cache, node, clock, hist>>

(* ------------------------ the admin short cut ------------------------- *)

User2 == Uid("Cedrus::User", 2)

\* Batches that give two users of the nil project any parents among themselves
\* and the Admins group: chains, self-loops and cycles included.
GraphBatches ==
    {{Ent(AdminUser, p1), Ent(User2, p2)} :
        p1 \in SUBSET {AdminUser, User2, AdminsGroup},
        p2 \in SUBSET {AdminUser, User2, AdminsGroup}}

\* The nil project's schema is removed or its entities are replaced; then a
\* management route checks a user.
SetupRequests ==
    {Req("project_schema_remove", Nil, NoArg)}
    \cup {Req("project_entities_add", Nil, [NoArg EXCEPT !.ents = b]) : b \in GraphBatches}
AllowRequests ==
    {Req("is_allow", Nil, [NoArg EXCEPT !.principal = p, !.resource = r]) :
        p \in {AdminUser, User2}, r \in {AdminUser, User2, entity_uid(1)}}
InitAdmin == Boot({"dynamodb"}, {"single"})
NextAdmin ==
    \/ Call(SetupRequests, MaxSetupCalls, 1)
    \/ Call(AllowRequests, MaxAdminCalls, 1)
    \/ \E t \in TaskIds : project_schema_remove(t)
    \/ \E t \in TaskIds : project_entities_add(t)
    \/ \E t \in TaskIds : allow(t)
SpecAdmin == InitAdmin /\ [][NextAdmin]_vars

\* In index list the principal reaches the Admins group through one or more
\* parent links.
ReachesAdmins(list, principal) ==
    \E e \in list : e.uid = principal /\ AdminsGroup \in ReachFrom(list, e.parents)

\* C19: is_allow returns Allow without asking the policy engine whenever the
\* principal reaches Cedrus::Group::"Admins" through a chain of one or more parent
\* links of the node's nil-project index, whatever the length of the chain.
C19_AdminsByAnyChain ==
    \A t \in TaskIds :
        (tasks[t].op = "is_allow" /\ Done(t)
            /\ \E list \in tasks[t].idx : ReachesAdmins(list, tasks[t].arg.principal))
        => (tasks[t].res = "Allow" /\ ~tasks[t].evaluated)

\* The same for a principal that has Admins among its own parents.
C19_AdminsByOneLink ==
    \A t \in TaskIds :
        (tasks[t].op = "is_allow" /\ Done(t)
            /\ \E list \in tasks[t].idx : \E e \in list :
                  e.uid = tasks[t].arg.principal /\ AdminsGroup \in e.parents)
        => (tasks[t].res = "Allow" /\ ~tasks[t].evaluated)

\* How many times the walk expanded uid.
Count(work, uid) == Cardinality({i \in DOMAIN work : work[i] = uid})

\* The entities of index list that the requested uids reach through the parents.
Closure(list, uids) == {e \in list : e.uid \in ReachFrom(list, uids)}

\* Index list has a cycle through uid.
OnCycle(list, uid) ==
    \E e \in list : e.uid = uid /\ uid \in ReachFrom(list, e.parents)

\* C20: for any entity index, one with cycles or self-loops included, the parent
\* closure of an authorization request is computed in finitely many expansions:
\* an entity is expanded at most once, a requested one at most twice, and what
\* is gathered is exactly what the requested uids reach.
C20_ClosureWorkIsLinear ==
    \A t \in TaskIds :
        LET w == tasks[t].walk
            asked == {tasks[t].arg.principal, tasks[t].arg.resource}
        IN  /\ \A i \in DOMAIN w.work :
                Count(w.work, w.work[i]) <= (IF w.work[i] \in asked THEN 2 ELSE 1)
            /\ (tasks[t].op = "is_allow" /\ tasks[t].evaluated)
               => \A list \in tasks[t].idx : w.entities = Closure(list, asked)

\* A closure was taken in an index with a cycle through the principal, and the
\* resource, which the principal reaches, was expanded twice.
C20_Witness ==
    \E t \in TaskIds :
        /\ tasks[t].op = "is_allow" /\ tasks[t].evaluated
        /\ \E list \in tasks[t].idx : OnCycle(list, tasks[t].arg.principal)
        /\ tasks[t].arg.principal # tasks[t].arg.resource
        /\ Count(tasks[t].walk.work, tasks[t].arg.resource) = 2

\* The uids of the entities of a set.
UidsOf(entities) == {e.uid : e \in entities}

AuthBatch == {Ent(User1, {}), Ent(Doc1, {User1})}
AuthRequests ==
    {Req("project_create", 0, [NoArg EXCEPT !.name = "a", !.api_key = 2]),
     Req("project_remove", 1, NoArg),
     Req("project_entities_add", 1, [NoArg EXCEPT !.ents = AuthBatch]),
     Req("project_entities_remove", 1, [NoArg EXCEPT !.uids = {User1, Doc1}]),
     Req("is_authorized", 1, [NoArg EXCEPT !.principal = User1, !.resource = Doc1])}
InitAuth == Boot({"dynamodb"}, {"single"})
NextAuth ==
    \/ Call(AuthRequests, MaxAuthCalls, MaxInFlight)
    \/ \E t \in TaskIds : project_create(t)
    \/ \E t \in TaskIds : project_remove(t)
    \/ \E t \in TaskIds : project_entities_add(t)
    \/ \E t \in TaskIds : project_entities_remove(t)
    \/ \E t \in TaskIds : is_authorized(t)
SpecAuth == InitAuth /\ [][NextAuth]_vars

\* C14: an authorization that runs while entities are added or removed evaluates
\* against the closure of principal and resource in one value of the entity index,
\* the one before or the one after a batch: never against part of a batch.
C14_ClosureOfOneIndex ==
    \A t \in TaskIds :
        (tasks[t].op = "is_authorized" /\ tasks[t].evaluated)
        => \E list \in tasks[t].idx :
              tasks[t].walk.entities =
                  Closure(list, {tasks[t].arg.principal, tasks[t].arg.resource})

\* C18: an is_authorized request for P that arrives at a node after the node has
\* applied P's removal ends with not-found, a refusal or Deny: never with Allow
\* and never abnormally (stated for a request that no other call overlaps).
C18_RemovedProjectIsRefused ==
    \A t \in TaskIds :
        (tasks[t].op = "is_authorized" /\ tasks[t].gone /\ Done(t) /\ Alone(t))
        => tasks[t].res \in {"NotFound", "Forbidden", "Deny"}

(* ------------------------------ ReloadAll ----------------------------- *)

\* A ReloadAll message is published on the bus from outside the nodes (no handler
\* of a node publishes one; sender 0 is no node). The call that stands for it
\* gives the message its id.
reload(t) ==
    /\ tasks[t].op = "reload"
    /\ tasks[t].pc = "start"
    /\ Deliver(Event(t, 0, "ReloadAll", Nil, 0, {}))
    /\ tasks' = [tasks EXCEPT ![t].pc = "done", ![t].res = "ok", ![t].snap = {}]
    /\ UNCHANGED <<dbKind, deploy, db, cache, node, applying, dead, clock, nextId>>

\* The cache write of a call returns an error: the `?` hands it to the caller,
\* after the durable write and before the node's state is touched.
fail(t) ==
    /\ tasks[t].pc \in {"cache", "cache_entity", "cache_links"}
    /\ Return(t, "error")
    /\ UNCHANGED <<Others, db, cache, node, clock, hist>>

\* A cluster in which a project is created, given another api key and removed
\* and the nil project is given an entity, one call at a time; a cache write may
\* fail; ReloadAll is published.
ReloadRequests ==
    {Req("project_create", 0, [NoArg EXCEPT !.name = "a", !.api_key = 2]),
     Req("project_update", 1, [NoArg EXCEPT !.name = "a", !.api_key = 3]),
     Req("project_remove", 1, NoArg),
     Req("project_entities_add", Nil, [NoArg EXCEPT !.ents = {Ent(AdminUser, {AdminsGroup})}]),
     Req("reload", Nil, NoArg)}
InitReload == Boot({"dynamodb"}, {"cluster"})
NextReload ==
    \/ Call(ReloadRequests, MaxTasks, 1)
    \/ \E t \in TaskIds : project_create(t)
    \/ \E t \in TaskIds : project_update(t)
    \/ \E t \in TaskIds : project_remove(t)
    \/ \E t \in TaskIds : project_entities_add(t)
    \/ \E t \in TaskIds : reload(t)
    \/ \E t \in TaskIds : fail(t)
    \/ \E n \in Nodes : Recv(n)
    \/ \E n \in Nodes : Apply(n)
SpecReload == InitReload /\ [][NextReload]_vars

\* Node n completes the apply of a ReloadAll in this step, with no call running
\* and no other event waiting for n.
ReloadApplied(n) ==
    /\ applying[n] # <<>>
    /\ applying[n][1].ev.type = "ReloadAll"
    /\ applying'[n] = <<>>
    /\ ~dead'[n]
    /\ InFlight = {}
    /\ inbox[n] = <<>>

\* The node is the projection of store c: entries for c's projects and for no
\* other, compiled from c, and one api key for each of c's projects.
Projection(ns, c) ==
    /\ View(ns) = View(Compiled(c))
    /\ ns.api_keys = {KeyOf(x) : x \in c.projects}

\* A call has stopped on a failed cache write, after its durable write, and the
\* ReloadAll that node n is applying was published after it.
Stopped(n, ops) ==
    \E t \in TaskIds :
        /\ tasks[t].res = "error"
        /\ tasks[t].op \in ops
        /\ applying[n] # <<>>
        /\ applying[n][1].ev.id > t

\* C15: when a mutating call has stopped after its durable write and before its
\* cache write or its local apply, a node that applies the next ReloadAll holds the
\* schema, entity index, policy set and authorizer of every project as the durable
\* store has them.
C15_ReloadRestoresDurable ==
    [][\A n \in Nodes :
          (Stopped(n, {"project_create", "project_update", "project_remove",
                       "project_entities_add"}) /\ ReloadApplied(n))
          => View(node'[n]) = View(Compiled(db'))]_vars

\* The same for a project_entities_add that stopped, on the entity indexes.
C15_ReloadRestoresEntities ==
    [][\A n \in Nodes :
          (Stopped(n, {"project_entities_add"}) /\ ReloadApplied(n))
          => View(node'[n]).ents = View(Compiled(db')).ents]_vars

\* C16: when a ReloadAll has been applied on a node, the node is exactly the
\* projection of the cache: schema, entity index, policy set and authorizer for
\* precisely the cached projects, compiled from the cache's contents, and exactly
\* one api key for each cached project.
C16_ReloadIsProjection ==
    [][\A n \in Nodes : ReloadApplied(n) => Projection(node'[n], cache')]_vars

\* The part of C16 on schema, entity index, policy set and authorizer alone: an
\* event applied late can leave entries of a project that is no longer cached,
\* and ReloadAll keeps them.
C16_ReloadIsProjectionButKeys ==
    [][\A n \in Nodes : ReloadApplied(n) => View(node'[n]) = View(Compiled(cache'))]_vars

(* ---------------------------- a node starts --------------------------- *)

\* Cache::project_clear: the project row and every key under the project.
project_clear(c, id) ==
    [c EXCEPT !.projects = {x \in @ : x.id # id},
              !.is[id] = NoneV, !.schema[id] = NoneV, !.entities[id] = {},
              !.policies[id] = {}, !.templates[id] = {}, !.links[id] = {}]

\* The task that stands for main on the starting node.
Starter == MaxTasks
Joiner == NumNodes

\* main on a node that starts beside a running cluster: init_project (the nil
\* project is stored already, so only the configured identity source is saved),
\* init_cache (for each stored project: clear it in the cache, load its entities,
\* policies, templates and links, then set the project row, the identity source
\* and schema as stored now, and what was loaded), load_cache, and only then the
\* subscription to the bus.
startup(t) ==
    LET n == tasks[t].node  d == tasks[t].data IN
    /\ tasks[t].op = "startup"
    /\ \/ /\ tasks[t].pc = "init_project"
          /\ db' = [db EXCEPT !.is[Nil] = ConfigIdentitySource]
          /\ tasks' = [tasks EXCEPT ![t].pc = "init_cache"]
          /\ UNCHANGED <<cache, node, dead>>
       \/ /\ tasks[t].pc = "init_cache"
          /\ tasks' = [tasks EXCEPT
                ![t].pc = IF db.projects = {} THEN "load_cache" ELSE "clear",
                ![t].data = [NoData EXCEPT !.project = db.projects]]
          /\ UNCHANGED <<db, cache, node, dead>>
       \/ /\ tasks[t].pc = "clear"
          /\ \E x \in d.project :
                /\ cache' = project_clear(cache, x.id)
                /\ tasks' = [tasks EXCEPT ![t].pc = "load", ![t].project = {x},
                                          ![t].data.project = @ \ {x}]
          /\ UNCHANGED <<db, node, dead>>
       \/ /\ tasks[t].pc = "load"
          /\ LET id == (CHOOSE x \in tasks[t].project : TRUE).id
             IN  tasks' = [tasks EXCEPT
                    ![t].pc = "set",
                    ![t].data.ents = db.entities[id],
                    ![t].data.ps = PolicySetOf(db.policies[id], db.templates[id],
                                               db.links[id])]
          /\ UNCHANGED <<db, cache, node, dead>>
       \/ /\ tasks[t].pc = "set"
          /\ LET x == CHOOSE x \in tasks[t].project : TRUE
                 id == x.id
             IN  cache' = [cache EXCEPT
                    !.projects = UpsertProject(@, x),
                    !.is[id] = IF db.is[id] # NoneV THEN db.is[id] ELSE @,
                    !.schema[id] = IF db.schema[id] # NoneV THEN db.schema[id] ELSE @,
                    !.entities[id] = UpsertEnt(@, d.ents),
                    !.policies[id] = UpsertRow(@, d.ps.static_policies),
                    !.templates[id] = UpsertRow(@, d.ps.templates),
                    !.links[id] = UpsertLink(@, d.ps.template_links)]
          /\ tasks' = [tasks EXCEPT
                ![t].pc = IF d.project = {} THEN "load_cache" ELSE "clear"]
          /\ UNCHANGED <<db, node, dead>>
       \/ /\ tasks[t].pc = "load_cache"
          /\ \E order \in ScanOrders :
                LET r == reload_all(order, node[n], cache)
                IN  /\ node' = [node EXCEPT ![n] = r.ns]
                    /\ tasks' = [tasks EXCEPT
                          ![t].pc = IF r.ok THEN "subscribe" ELSE "done",
                          ![t].res = IF r.ok THEN "" ELSE "panic"]
          /\ UNCHANGED <<db, cache, dead>>
       \/ /\ tasks[t].pc = "subscribe"
          /\ dead' = [dead EXCEPT ![n] = FALSE]
          /\ tasks' = [tasks EXCEPT ![t].pc = "done", ![t].res = "ok"]
          /\ UNCHANGED <<db, cache, node>>
    /\ UNCHANGED <<dbKind, deploy, inbox, applying, clock, nextId, hist>>

\* A cluster whose first node serves calls on the nil project's entities while
\* the last node starts: it has empty maps and no subscriber yet.
JoinRequests ==
    {Req("project_entities_add", Nil, [NoArg EXCEPT !.ents = {Ent(AdminUser, {AdminsGroup})}]),
     Req("project_entities_remove", Nil, [NoArg EXCEPT !.uids = {AdminUser}])}
InitJoin ==
    /\ dbKind = "dynamodb"
    /\ deploy = "cluster"
    /\ db = init_project(1)
    /\ cache = init_cache(db)
    /\ node = [n \in Nodes |-> IF n = Joiner THEN EmptyNode ELSE load_cache(cache)]
    /\ tasks = [t \in TaskIds |->
                  IF t = Starter
                  THEN [IdleTask EXCEPT !.op = "startup", !.node = Joiner,
                                        !.pc = "init_project"]
                  ELSE IdleTask]
    /\ inbox = [n \in Nodes |-> <<>>]
    /\ applying = [n \in Nodes |-> <<>>]
    /\ dead = [n \in Nodes |-> n = Joiner]
    /\ clock = 2
    /\ nextId = 1
    /\ hist = InitHist(load_cache(cache))
NextJoin ==
    \/ /\ Call(JoinRequests, MaxTasks - 1, MaxInFlight)
       /\ \A t \in TaskIds : tasks'[t].op \notin {"idle", "startup"} => tasks'[t].node # Joiner
    \/ \E t \in TaskIds : project_entities_add(t)
    \/ \E t \in TaskIds : project_entities_remove(t)
    \/ \E t \in TaskIds : startup(t)
    \/ \E n \in Nodes : Recv(n)
    \/ \E n \in Nodes : Apply(n)
SpecJoin == InitJoin /\ [][NextJoin]_vars

\* A call that was made while the node was starting.
DuringStartup(t) == tasks[t].op \notin {"idle", "startup"} /\ Starter \in tasks[t].conc

\* C17: a node that started while the other nodes performed mutations holds, once
\* its startup is over, every call has returned and every event is applied, the
\* schema, entity index, policy set and authorizer of every project as the other
\* nodes hold them.
C17_StartedNodeAgrees ==
    (Quiet /\ tasks[Starter].res = "ok")
    => \A n \in Nodes : View(node[n]) = View(node[Joiner])

\* The same when every call was made after the startup was over, and one at a time.
C17_AgreesWhenStartedAlone ==
    (Quiet /\ tasks[Starter].res = "ok" /\ \A t \in TaskIds : Alone(t))
    => \A n \in Nodes : View(node[n]) = View(node[Joiner])

\* The second half of C17: the started node holds every entity the durable store
\* holds, once all is quiet.
C17_NothingMissing ==
    (Quiet /\ tasks[Starter].res = "ok")
    => \A p \in AllProjects : db.entities[p] \subseteq node[Joiner].ents[p]

\* A call was made during the startup, and all is quiet.
C17_Case ==
    /\ Quiet
    /\ tasks[Starter].res = "ok"
    /\ \E t \in TaskIds : DuringStartup(t) /\ tasks[t].res = "ok"

(* ----------------------- templates and their links -------------------- *)

\* One node on which the nil project's admin-role template is removed and added
\* and a link to it is added and removed, two calls at a time.
LinkRequests ==
    {Req("project_templates_remove", Nil, [NoArg EXCEPT !.ids = {TEMPLATE_PROJECT_ADMIN_ROLE}]),
     Req("project_templates_add", Nil,
         [NoArg EXCEPT !.rows = {Row(TEMPLATE_PROJECT_ADMIN_ROLE, "ok")}]),
     Req("project_template_links_add", Nil, [NoArg EXCEPT !.links = {RoleLink}]),
     Req("project_template_links_remove", Nil, [NoArg EXCEPT !.ids = {LinkId(-1, "l1")}])}
InitLinks == Boot({"dynamodb"}, {"single"})
NextLinks ==
    \/ Call(LinkRequests, MaxTasks, MaxInFlight)
    \/ \E t \in TaskIds : project_templates_add(t)
    \/ \E t \in TaskIds : project_templates_remove(t)
    \/ \E t \in TaskIds : project_template_links_add(t)
    \/ \E t \in TaskIds : project_template_links_remove(t)
SpecLinks == InitLinks /\ [][NextLinks]_vars

\* Every link stored for a project names a template stored for the project.
LinksNameTemplates(d) ==
    \A p \in AllProjects : \A l \in d.links[p] :
        \E r \in d.templates[p] : r.id = l.template_id

\* C22: after any sequence of template and template-link add and remove calls on
\* a project, concurrent ones included, every template link stored for the project
\* names a template stored for the same project (stated when no call is running).
C22_LinksNameStoredTemplates ==
    InFlight = {} => LinksNameTemplates(db)

\* The same when the calls were made one at a time.
C22_SequentialLinksNameTemplates ==
    (InFlight = {} /\ \A t \in TaskIds : Alone(t)) => LinksNameTemplates(db)

\* A link was added and its template removed, one call at a time.
C22_SequentialCase ==
    /\ \A t \in TaskIds : Alone(t)
    /\ \E t, u \in TaskIds :
        /\ tasks[t].op = "project_template_links_add" /\ tasks[t].res = "ok"
        /\ tasks[u].op = "project_templates_remove" /\ Done(u) /\ u > t

(* ------------------------------ api keys ------------------------------ *)

\* One node on which projects are created with a key of the caller's choice or a
\* generated one, and given another key, one call at a time.
KeyRequests ==
    {Req("project_create", 0, [NoArg EXCEPT !.name = "a", !.api_key = 2]),
     Req("project_create", 0, [NoArg EXCEPT !.name = "a", !.api_key = ServerApiKey]),
     Req("project_create", 0, [NoArg EXCEPT !.name = "a"]),
     Req("project_update", 1, [NoArg EXCEPT !.name = "a", !.api_key = ServerApiKey]),
     Req("project_update", 1, [NoArg EXCEPT !.name = "a", !.api_key = 3])}
InitKeys == Boot({"dynamodb", "couchdb"}, {"single"})
NextKeys ==
    \/ Call(KeyRequests, MaxTasks, 1)
    \/ \E t \in TaskIds : project_create(t)
    \/ \E t \in TaskIds : project_update(t)
SpecKeys == InitKeys /\ [][NextKeys]_vars

\* C23: after any sequence of project_create and project_update calls, no two
\* projects of the durable store have the same api_key.
C23_ApiKeysUnique ==
    \A x, y \in db.projects : x.api_key = y.api_key => x.id = y.id

\* The same when every key is generated by project_create.
C23_GeneratedKeysUnique ==
    (\A t \in TaskIds : tasks[t].op \in {"project_create", "project_update"}
                            => tasks[t].arg.api_key = 0 /\ tasks[t].op = "project_create")
    => C23_ApiKeysUnique

(* --------------------------- the bus fails ---------------------------- *)

\* ValKeyPubSub::publish when the connection's publish returns an error: the
\* result is unwrapped inside publish, so the handler's task panics at its last
\* await, after update(&message, true) has run, and nothing is sent.
bus_error(t) ==
    /\ deploy = "cluster"
    /\ tasks[t].pc = "send"
    /\ tasks' = [tasks EXCEPT ![t].pc = "done", ![t].res = "panic", ![t].snap = {},
                              ![t].log = Append(@, "bus_error")]
    /\ UNCHANGED <<Others, db, cache, node, clock, hist>>

\* A cluster in which the nil project is given an entity and a policy, one call
\* at a time, and the bus may fail a publish.
BusRequests ==
    {Req("project_entities_add", Nil, [NoArg EXCEPT !.ents = {Ent(AdminUser, {AdminsGroup})}]),
     Req("project_policies_add", Nil, [NoArg EXCEPT !.rows = {Row("p1", "ok")}])}
InitBus == Boot({"dynamodb"}, {"cluster"})
NextBus ==
    \/ Call(BusRequests, MaxTasks, 1)
    \/ \E t \in TaskIds : project_entities_add(t)
    \/ \E t \in TaskIds : project_policies_add(t)
    \/ \E t \in TaskIds : bus_error(t)
    \/ \E n \in Nodes : Recv(n)
    \/ \E n \in Nodes : Apply(n)
SpecBus == InitBus /\ [][NextBus]_vars

\* The publish of call t failed on the bus.
BusFailed(t) ==
    Done(t) /\ tasks[t].log # <<>> /\ tasks[t].log[Len(tasks[t].log)] = "bus_error"

\* The store holds what call t wrote.
Stored(d, c) ==
    CASE c.op = "project_entities_add" -> c.arg.ents \subseteq d.entities[c.p]
      [] c.op = "project_policies_add" -> c.arg.rows \subseteq d.policies[c.p]
      [] OTHER -> TRUE

\* C24: a management call whose publish to the bus failed still returns success
\* to its caller.
C24_BusFailureStillSucceeds ==
    \A t \in TaskIds : BusFailed(t) => tasks[t].res = "ok"

\* The second half of C24: in the step in which the publish of a call fails, the
\* durable store, the cache and the node's own state hold the call's write.
C24_BusFailureKeepsTheWrite ==
    [][\A t \in TaskIds :
          (~BusFailed(t) /\ BusFailed(t)')
          => /\ Stored(db', tasks[t]) /\ Stored(cache', tasks[t])
             /\ Reflects(node'[tasks[t].node], tasks[t])]_vars

\* The publish of a call failed.
C24_Case == \E t \in TaskIds : BusFailed(t)

(* ------------------------ a removal that fails ------------------------ *)

\* batch_write_item: request_items.chunks(25).
BatchSize == 25

\* A set as a sequence.
RECURSIVE SeqOf(_)
SeqOf(S) ==
    IF S = {} THEN <<>>
    ELSE LET x == CHOOSE y \in S : TRUE IN <<x>> \o SeqOf(S \ {x})

\* A delete request for one row: its collection, its project and its key.
Del(kind, p, key) == [kind |-> kind, p |-> p, key |-> key]

\* Sequences of delete requests for the rows of a collection.
RECURSIVE DelEach(_, _, _)
DelEach(kind, p, keys) ==
    IF keys = <<>> THEN <<>>
    ELSE <<Del(kind, p, Head(keys))>> \o DelEach(kind, p, Tail(keys))

\* DynamoDb::project_remove's request_items: the rows under PK = P#<id> in the
\* order of their sort keys (the project row, whose sort key is the partition
\* key itself, comes first; then #E#, #IS, #P#, #S, #T#, #TL#), then the nil
\* project's links of the project, then the nil project's entity of the project.
request_items(d, id) ==
    DelEach("project", id, SeqOf({x.id : x \in project_load(d, id)}))
    \o DelEach("E", id, SeqOf({e.uid : e \in d.entities[id]}))
    \o (IF d.is[id] = NoneV THEN <<>> ELSE <<Del("IS", id, 0)>>)
    \o DelEach("P", id, SeqOf({r.id : r \in d.policies[id]}))
    \o (IF d.schema[id] = NoneV THEN <<>> ELSE <<Del("S", id, 0)>>)
    \o DelEach("T", id, SeqOf({r.id : r \in d.templates[id]}))
    \o DelEach("TL", id, SeqOf({l.new_id : l \in d.links[id]}))
    \o DelEach("TL", Nil, SeqOf({l.new_id : l \in {x \in d.links[Nil] : x.new_id.prefix = id}}))
    \o <<Del("E", Nil, entity_uid(id))>>

\* One DeleteRequest carried out.
DeleteRow(d, r) ==
    CASE r.kind = "project" -> [d EXCEPT !.projects = {x \in @ : x.id # r.key}]
      [] r.kind = "E" -> [d EXCEPT !.entities[r.p] = {e \in @ : e.uid # r.key}]
      [] r.kind = "IS" -> [d EXCEPT !.is[r.p] = NoneV]
      [] r.kind = "P" -> [d EXCEPT !.policies[r.p] = {x \in @ : x.id # r.key}]
      [] r.kind = "S" -> [d EXCEPT !.schema[r.p] = NoneV]
      [] r.kind = "T" -> [d EXCEPT !.templates[r.p] = {x \in @ : x.id # r.key}]
      [] r.kind = "TL" -> [d EXCEPT !.links[r.p] = {l \in @ : l.new_id # r.key}]

\* The first chunks of a batch carried out.
RECURSIVE batch_write_item(_, _)
batch_write_item(d, items) ==
    IF items = <<>> THEN d
    ELSE batch_write_item(DeleteRow(d, Head(items)), Tail(items))

\* The number of chunks of a batch.
Chunks(items) == (Len(items) + BatchSize - 1) \div BatchSize

\* DynamoDb::project_remove when the send of chunk j returns an error: the chunks
\* before it are deleted, the `?` returns the error to project_remove's caller,
\* and neither the cache nor the node is touched.
db_error(t) ==
    LET id == tasks[t].p  items == request_items(db, id) IN
    /\ tasks[t].op = "project_remove"
    /\ tasks[t].pc = "db"
    /\ dbKind = "dynamodb"
    /\ \E j \in 1..Chunks(items) :
          /\ db' = batch_write_item(db, SubSeq(items, 1, (j - 1) * BatchSize))
          /\ tasks' = [tasks EXCEPT
                ![t].pc = "done", ![t].res = "error", ![t].snap = {},
                ![t].log = Append(@, IF j > 1 THEN "db_partway" ELSE "db_error")]
    /\ UNCHANGED <<Others, cache, node, clock, hist>>

\* The entities of the stored project.
ManyDocs == {Ent(Uid("Doc", i), {}) : i \in 1..ManyEntities}

\* A durable store that holds project 1 with many entities.
FullStore ==
    LET x == Project(1, "a", 2, Caller, 2)
        d == init_project(1)
    IN  [d EXCEPT !.projects = UpsertProject(@, x),
                  !.entities[Nil] = UpsertEnt(@, {entity(x)}),
                  !.links[Nil] = UpsertLink(@, template_links(x)),
                  !.entities[1] = ManyDocs]

\* A node started on a DynamoDB store that holds project 1; at node 1 the project
\* is removed, and removed again, one call at a time; a batch of the removal or
\* the cache write may fail.
RemoveRequests ==
    {Req("project_remove", 1, NoArg),
     Req("project_entities_add", 1, [NoArg EXCEPT !.ents = {Ent(Doc1, {User1})}])}
InitRemove ==
    /\ dbKind = "dynamodb"
    /\ deploy \in {"single", "cluster"}
    /\ db = FullStore
    /\ cache = init_cache(db)
    /\ node = [n \in Nodes |-> Compiled(cache)]
    /\ tasks = [t \in TaskIds |-> IdleTask]
    /\ inbox = [n \in Nodes |-> <<>>]
    /\ applying = [n \in Nodes |-> <<>>]
    /\ dead = [n \in Nodes |-> FALSE]
    /\ clock = 3
    /\ nextId = 2
    /\ hist = InitHist(Compiled(cache))
NextRemove ==
    \/ /\ Call(RemoveRequests, MaxTasks, 1)
       /\ \A t \in TaskIds : tasks'[t].node \in {0, 1}
    \/ \E t \in TaskIds : project_remove(t)
    \/ \E t \in TaskIds : project_entities_add(t)
    \/ \E t \in TaskIds : db_error(t)
    \/ \E t \in TaskIds : fail(t)
    \/ \E n \in Nodes : Recv(n)
    \/ \E n \in Nodes : Apply(n)
SpecRemove == InitRemove /\ [][NextRemove]_vars

\* Call t is a project_remove that failed on a batch: after an earlier batch was
\* deleted (partway), or on the first.
FailedOn(t, label) ==
    /\ tasks[t].op = "project_remove" /\ tasks[t].res = "error"
    /\ tasks[t].log # <<>> /\ tasks[t].log[Len(tasks[t].log)] = label

\* A later project_remove of the same project has returned.
Reissued(t, u) ==
    /\ t < u /\ tasks[u].op = "project_remove" /\ tasks[u].p = tasks[t].p
    /\ Done(u) /\ tasks[u].res # "error"

\* C25: when project_remove(P) has failed partway through its deletions and
\* project_remove(P) is issued again and returns, the durable store holds no row of
\* P, and the nil project neither P's entity nor a link of P.
C25_ReissueCompletes ==
    \A t, u \in TaskIds :
        (FailedOn(t, "db_partway") /\ Reissued(t, u)) => HoldsNothing(db, tasks[t].p)

\* The same when the removal failed on its first batch, with nothing deleted.
C25_ReissueAfterNothingDeleted ==
    \A t, u \in TaskIds :
        (/\ FailedOn(t, "db_error") /\ Reissued(t, u)
         /\ \A v \in TaskIds : ~FailedOn(v, "db_partway"))
        => HoldsNothing(db, tasks[t].p)

\* The batch of a removal, carried out whole, is the removal.
C25_BatchIsTheRemoval ==
    \A id \in Projects :
        batch_write_item(db, request_items(db, id)) = dynamodb_project_remove(db, id)

(* --------------------------- the nil project -------------------------- *)

\* One node on which a project is created and removed, the nil project is renamed
\* and its removal is asked for, two calls at a time, on either backend.
NilRequests ==
    {Req("project_create", 0, [NoArg EXCEPT !.name = "a", !.api_key = 2]),
     Req("project_remove", 1, NoArg),
     Req("project_remove", Nil, NoArg),
     Req("project_update", Nil, [NoArg EXCEPT !.name = "b", !.api_key = ServerApiKey])}
InitNil == Boot({"dynamodb", "couchdb"}, {"single"})
NextNil ==
    \/ Call(NilRequests, MaxTasks, MaxInFlight)
    \/ \E t \in TaskIds : project_create(t)
    \/ \E t \in TaskIds : project_update(t)
    \/ \E t \in TaskIds : project_remove(t)
SpecNil == InitNil /\ [][NextNil]_vars

\* C26: the nil project is in the durable store, in the cache and on the node in
\* every state after startup; a remove request for the nil project id is refused
\* as Forbidden, and when nothing else ran meanwhile the durable store, the cache
\* and the node are as they were when it arrived.
C26_NilProjectStays ==
    /\ project_load(db, Nil) # {}
    /\ project_load(cache, Nil) # {}
    /\ \A n \in Serving : Nil \in node[n].entHas /\ Nil \in node[n].polHas
    /\ \A t \in TaskIds :
        (tasks[t].op = "project_remove" /\ is_nil(tasks[t].p) /\ Done(t))
        => /\ tasks[t].res = "Forbidden"
           /\ tasks[t].alone => tasks[t].clean

\* The removal of the nil project was asked for, alone, after a project had been
\* created and removed.
C26_Witness ==
    \E t, u \in TaskIds :
        /\ tasks[t].op = "project_remove" /\ tasks[t].p = Nil /\ Done(t) /\ tasks[t].alone
        /\ tasks[u].op = "project_remove" /\ tasks[u].p = 1 /\ tasks[u].res = "ok" /\ u < t

(* ------------------------- seeding the nil project -------------------- *)

\* Cedrus::init_project, one await at a time: load the nil project; when there is
\* none, save the project row, the embedded schema, entities, policies, templates
\* and template links, in this order; then, in either case, save the configured
\* identity source.
seed(t) ==
    LET now == clock IN
    /\ tasks[t].op = "init_project"
    /\ \/ /\ tasks[t].pc = "start"
          /\ tasks' = [tasks EXCEPT ![t].pc = IF project_load(db, Nil) = {}
                                              THEN "project" ELSE "identity_source"]
          /\ UNCHANGED <<db, clock>>
       \/ /\ tasks[t].pc = "project"
          /\ db' = [db EXCEPT !.projects = UpsertProject(@, CHOOSE x \in init_project(now).projects : TRUE)]
          /\ clock' = clock + 1
          /\ tasks' = [tasks EXCEPT ![t].pc = "schema"]
       \/ /\ tasks[t].pc = "schema"
          /\ db' = [db EXCEPT !.schema[Nil] = init_project(now).schema[Nil]]
          /\ tasks' = [tasks EXCEPT ![t].pc = "entities"]
          /\ UNCHANGED clock
       \/ /\ tasks[t].pc = "entities"
          /\ db' = [db EXCEPT !.entities[Nil] = UpsertEnt(@, init_project(now).entities[Nil])]
          /\ tasks' = [tasks EXCEPT ![t].pc = "policies"]
          /\ UNCHANGED clock
       \/ /\ tasks[t].pc = "policies"
          /\ db' = [db EXCEPT !.policies[Nil] = UpsertRow(@, init_project(now).policies[Nil])]
          /\ tasks' = [tasks EXCEPT ![t].pc = "templates"]
          /\ UNCHANGED clock
       \/ /\ tasks[t].pc = "templates"
          /\ db' = [db EXCEPT !.templates[Nil] = UpsertRow(@, init_project(now).templates[Nil])]
          /\ tasks' = [tasks EXCEPT ![t].pc = "template_links"]
          /\ UNCHANGED clock
       \/ /\ tasks[t].pc = "template_links"
          /\ db' = [db EXCEPT !.links[Nil] = UpsertLink(@, init_project(now).links[Nil])]
          /\ tasks' = [tasks EXCEPT ![t].pc = "identity_source"]
          /\ UNCHANGED clock
       \/ /\ tasks[t].pc = "identity_source"
          /\ db' = [db EXCEPT !.is[Nil] = ConfigIdentitySource]
          /\ tasks' = [tasks EXCEPT ![t].pc = "done", ![t].res = "ok", ![t].snap = {}]
          /\ UNCHANGED clock
    /\ UNCHANGED <<Others, cache, node, hist>>

\* The process is stopped while init_project waits at an await.
interrupt(t) ==
    /\ tasks[t].op = "init_project"
    /\ tasks[t].pc \notin {"idle", "done"}
    /\ tasks' = [tasks EXCEPT ![t].pc = "done", ![t].res = "interrupted", ![t].snap = {}]
    /\ UNCHANGED <<Others, db, cache, node, clock, hist>>

\* Startups on a durable store that begins empty, one after the other; a startup
\* may be interrupted.
SeedRequests == {Req("init_project", Nil, NoArg)}
InitSeed ==
    /\ dbKind \in {"dynamodb", "couchdb"}
    /\ deploy = "single"
    /\ db = EmptyStore
    /\ cache = EmptyStore
    /\ node = [n \in Nodes |-> EmptyNode]
    /\ tasks = [t \in TaskIds |-> IdleTask]
    /\ inbox = [n \in Nodes |-> <<>>]
    /\ applying = [n \in Nodes |-> <<>>]
    /\ dead = [n \in Nodes |-> FALSE]
    /\ clock = 1
    /\ nextId = 1
    /\ hist = InitHist(EmptyNode)
NextSeed ==
    \/ Call(SeedRequests, MaxTasks, 1)
    \/ \E t \in TaskIds : seed(t)
    \/ \E t \in TaskIds : interrupt(t)
SpecSeed == InitSeed /\ [][NextSeed]_vars

\* The durable store holds the nil project row, the embedded schema, entities
\* and templates, and the configured identity source.
Seeded(d) ==
    /\ project_load(d, Nil) # {}
    /\ d.schema[Nil] = SeedSchema
    /\ SeedEntities \subseteq d.entities[Nil]
    /\ SeedTemplates \subseteq d.templates[Nil]
    /\ d.is[Nil] = ConfigIdentitySource

\* C27: when init_project has returned successfully, also after an earlier startup
\* that was interrupted partway through seeding, the durable store holds the nil
\* project row with the embedded schema, entities and policy set and the
\* configured identity source.
C27_StartupSeedsNilProject ==
    \A t \in TaskIds : (tasks[t].op = "init_project" /\ tasks[t].res = "ok") => Seeded(db)

\* The same when no startup was interrupted.
C27_UninterruptedStartupSeeds ==
    (\A t \in TaskIds : tasks[t].res # "interrupted")
    => \A t \in TaskIds : (tasks[t].op = "init_project" /\ tasks[t].res = "ok")
            => /\ Seeded(db)
               /\ \E now \in 1..clock : db = init_project(now)

(* ----------------------- guards across an await ------------------------ *)

\* The authorize middleware. With an X-API-KEY header: the key is looked up in
\* api_keys and the guard dropped with no await in between. Without: the nil
\* project's authorizer is taken from project_authorizers (no entry: Unauthorized;
\* an entry holding no authorizer: the unwrap panics), the bearer token extracted,
\* and check_auth awaited twice, the first result unwrapped; the Ref that
\* project_authorizers.get returned lives to the end of the else block.
authorize(t) ==
    LET a == tasks[t].arg  ns == node[tasks[t].node] IN
    /\ tasks[t].op = "authorize"
    /\ \/ /\ tasks[t].pc = "start"
          /\ IF a.api_key # 0
             THEN tasks' = [tasks EXCEPT
                     ![t].pc = "done", ![t].snap = {},
                     ![t].res = IF \E k \in ns.api_keys : k.key = a.api_key
                                THEN "ok" ELSE "Unauthorized"]
             ELSE IF ns.authorizers[Nil] = Absent \/ ns.authorizers[Nil] = NoneV
                     \/ a.str = NoneV
             THEN tasks' = [tasks EXCEPT
                     ![t].pc = "done", ![t].snap = {},
                     ![t].res = IF ns.authorizers[Nil] = Absent THEN "Unauthorized"
                                ELSE IF ns.authorizers[Nil] = NoneV THEN "panic"
                                ELSE "Unauthorized"]
             ELSE tasks' = [tasks EXCEPT ![t].pc = "check_auth",
                                         ![t].held = {"project_authorizers"}]
       \/ /\ tasks[t].pc = "check_auth"
          /\ IF a.str = "bad"
             THEN tasks' = [tasks EXCEPT ![t].pc = "done", ![t].snap = {},
                                         ![t].res = "panic", ![t].held = {}]
             ELSE tasks' = [tasks EXCEPT ![t].pc = "check_auth_again"]
       \/ /\ tasks[t].pc = "check_auth_again"
          /\ tasks' = [tasks EXCEPT ![t].pc = "done", ![t].snap = {},
                                    ![t].res = "ok", ![t].held = {}]
    /\ UNCHANGED <<Others, db, cache, node, clock, hist>>

\* One node that authenticates requests, by key or by token, while the nil
\* project's identity source is replaced or removed.
AuthnRequests ==
    {Req("authorize", Nil, [NoArg EXCEPT !.api_key = k]) : k \in {ServerApiKey, 9}}
    \cup {Req("authorize", Nil, [NoArg EXCEPT !.str = tok]) : tok \in {NoneV, "good", "bad"}}
    \cup {Req("project_identity_source_update", Nil, [NoArg EXCEPT !.str = "is1"]),
          Req("project_identity_source_remove", Nil, NoArg)}
InitAuthn == Boot({"dynamodb"}, {"single"})
NextAuthn ==
    \/ Call(AuthnRequests, MaxTasks, MaxInFlight)
    \/ \E t \in TaskIds : authorize(t)
    \/ \E t \in TaskIds : project_identity_source_update(t)
    \/ \E t \in TaskIds : project_identity_source_remove(t)
SpecAuthn == InitAuthn /\ [][NextAuthn]_vars

\* Task t is suspended at an await.
Suspended(t) == tasks[t].pc \notin {"idle", "done"}

\* C28: no task holds a guard on one of the node's concurrent maps while it is
\* suspended at an await.
C28_NoGuardAcrossAwait ==
    \A t \in TaskIds : Suspended(t) => tasks[t].held = {}

\* The same for every task but the authorize middleware.
C28_HandlersHoldNoGuard ==
    \A t \in TaskIds : (Suspended(t) /\ tasks[t].op # "authorize") => tasks[t].held = {}

(* ------------------- schema types and the binary form ------------------ *)

\* Option<T>: None is the empty sequence, Some(x) the sequence of x alone.
None == <<>>
Some(x) == <<x>>

\* schema::TypeJson: one of eight variants, each with an optional required flag;
\* Entity, Extension and EntityOrCommon carry a name, Set an element, Record its
\* attributes by name.
TypeJson(variant, name, element, attributes, required) ==
    [variant |-> variant, name |-> name, element |-> element,
     attributes |-> attributes, required |-> required]

Flags == {None, Some(TRUE), Some(FALSE)}

LeafTypes ==
    {TypeJson(v, "", <<>>, {}, r) : v \in {"Long", "String", "Boolean"}, r \in Flags}
    \cup {TypeJson(v, "User", <<>>, {}, r) :
            v \in {"Entity", "Extension", "EntityOrCommon"}, r \in Flags}

\* The schema types nested at most depth deep, records having at most the one
\* attribute "a".
RECURSIVE TypesTo(_)
TypesTo(depth) ==
    IF depth = 0 THEN LeafTypes
    ELSE LET inner == TypesTo(depth - 1) IN
         LeafTypes
         \cup {TypeJson("Set", "", <<e>>, {}, r) : e \in inner, r \in Flags}
         \cup {TypeJson("Record", "", <<>>, {}, r) : r \in Flags}
         \cup {TypeJson("Record", "", <<>>, {[k |-> "a", v |-> e]}, r) :
                 e \in inner, r \in Flags}

\* A flag that reads false when it is absent.
required_or_default(required) == IF required = None THEN FALSE ELSE required[1]

\* required.unwrap_or(true)
required_into(required) == IF required = None THEN TRUE ELSE required[1]

\* The match on the binary flag: true comes back absent, false as Some(false).
required_from(required) == IF required THEN None ELSE Some(FALSE)

\* The tag of the binary message's oneof for each variant.
TagOf(variant) ==
    CASE variant = "Long" -> "L" [] variant = "String" -> "S"
      [] variant = "Boolean" -> "B" [] variant = "Set" -> "Set"
      [] variant = "Entity" -> "Entity" [] variant = "Record" -> "Record"
      [] variant = "Extension" -> "Ext" [] variant = "EntityOrCommon" -> "Eorc"

VariantOf(tag) ==
    CASE tag = "L" -> "Long" [] tag = "S" -> "String"
      [] tag = "B" -> "Boolean" [] tag = "Set" -> "Set"
      [] tag = "Entity" -> "Entity" [] tag = "Record" -> "Record"
      [] tag = "Ext" -> "Extension" [] tag = "Eorc" -> "EntityOrCommon"

\* impl Into<proto::schema::TypeJson> for TypeJson: the message holds Some(value),
\* the value its tag, a plain boolean required, and the converted element and
\* attributes.
RECURSIVE into(_)
into(ty) ==
    [value |-> Some(
        [tag |-> TagOf(ty.variant),
         name |-> ty.name,
         element |-> IF ty.variant = "Set" THEN Some(into(ty.element[1])) ELSE None,
         attributes |-> {[k |-> kv.k, v |-> into(kv.v)] : kv \in ty.attributes},
         required |-> required_into(ty.required)])]

\* impl From<proto::schema::TypeJson> for TypeJson.
RECURSIVE from(_)
from(msg) ==
    LET value == msg.value[1] IN
    TypeJson(VariantOf(value.tag), value.name,
             IF value.tag = "Set" THEN <<from(value.element[1])>> ELSE <<>>,
             {[k |-> kv.k, v |-> from(kv.v)] : kv \in value.attributes},
             required_from(value.required))

\* A schema type is written in the binary form and read back: the task holds the
\* type it was given in arg and the value in hand in data.
to_binary(t) ==
    /\ tasks[t].op = "schema_type" /\ tasks[t].pc = "start"
    /\ tasks' = [tasks EXCEPT ![t].pc = "binary", ![t].data = into(tasks[t].data)]
    /\ UNCHANGED <<Others, db, cache, node, clock, hist>>

from_binary(t) ==
    /\ tasks[t].op = "schema_type" /\ tasks[t].pc = "binary"
    /\ tasks' = [tasks EXCEPT ![t].pc = "done", ![t].res = "ok",
                              ![t].data = from(tasks[t].data)]
    /\ UNCHANGED <<Others, db, cache, node, clock, hist>>

InitSchemaType ==
    /\ dbKind = "dynamodb"
    /\ deploy = "single"
    /\ db = EmptyStore
    /\ cache = EmptyStore
    /\ node = [n \in Nodes |-> EmptyNode]
    /\ \E ty \in TypesTo(MaxTypeDepth) :
         tasks = [t \in TaskIds |->
                    IF t = 1 THEN [IdleTask EXCEPT !.op = "schema_type", !.node = 1,
                                                   !.pc = "start", !.arg = ty, !.data = ty]
                    ELSE IdleTask]
    /\ inbox = [n \in Nodes |-> <<>>]
    /\ applying = [n \in Nodes |-> <<>>]
    /\ dead = [n \in Nodes |-> FALSE]
    /\ clock = 1
    /\ nextId = 1
    /\ hist = InitHist(EmptyNode)
NextSchemaType ==
    \/ \E t \in TaskIds : to_binary(t)
    \/ \E t \in TaskIds : from_binary(t)
SpecSchemaType == InitSchemaType /\ [][NextSchemaType]_vars

\* Wherever the required flag of ty is absent, that of back is absent, in the
\* type itself, its element and its attributes.
RECURSIVE AbsentStays(_, _)
AbsentStays(ty, back) ==
    /\ back.variant = ty.variant
    /\ ty.required = None => back.required = None
    /\ Len(back.element) = Len(ty.element)
    /\ ty.element # <<>> => AbsentStays(ty.element[1], back.element[1])
    /\ {kv.k : kv \in back.attributes} = {kv.k : kv \in ty.attributes}
    /\ \A kv \in ty.attributes : \A kw \in back.attributes :
         kw.k = kv.k => AbsentStays(kv.v, kw.v)

\* C29: a schema type written in the binary form and read back has its required
\* flag absent wherever it was absent, in every variant, and never false there.
C29_AbsentRequiredStaysAbsent ==
    \A t \in TaskIds :
      (tasks[t].op = "schema_type" /\ tasks[t].pc = "done")
        => /\ AbsentStays(tasks[t].arg, tasks[t].data)
           /\ tasks[t].arg.required = None => tasks[t].data.required # Some(FALSE)

\* A record with no required flag, holding a set with none, has come back.
C29_Witness ==
    \E t \in TaskIds :
      /\ tasks[t].op = "schema_type" /\ tasks[t].pc = "done"
      /\ tasks[t].arg.variant = "Record" /\ tasks[t].arg.required = None
      /\ \E kv \in tasks[t].arg.attributes :
           kv.v.variant = "Set" /\ kv.v.required = None

\* A type carrying no explicit required = true comes back equal.
RECURSIVE NoExplicitTrue(_)
NoExplicitTrue(ty) ==
    /\ ty.required # Some(TRUE)
    /\ ty.element # <<>> => NoExplicitTrue(ty.element[1])
    /\ \A kv \in ty.attributes : NoExplicitTrue(kv.v)

C29_RoundTripButExplicitTrue ==
    \A t \in TaskIds :
      (tasks[t].op = "schema_type" /\ tasks[t].pc = "done"
         /\ NoExplicitTrue(tasks[t].arg))
        => tasks[t].data = tasks[t].arg

(* ---------------------- entity attributes as JSON ---------------------- *)

\* entity::EntityAttr: the variant, and of its payload what the variant uses:
\* the string, number or boolean, the elements of a set, the attributes of a
\* record by name, the type and id of an entity reference (bare or escaped), the
\* fn and arg of an extension function (bare or escaped).
EntityAttr(variant, s, n, b, set, record, str1, str2) ==
    [variant |-> variant, s |-> s, n |-> n, b |-> b, set |-> set, record |-> record,
     str1 |-> str1, str2 |-> str2]

AttrString(s) == EntityAttr("String", s, 0, FALSE, <<>>, {}, "", "")
AttrNumber(n) == EntityAttr("Number", "", n, FALSE, <<>>, {}, "", "")
AttrBoolean(b) == EntityAttr("Boolean", "", 0, b, <<>>, {}, "", "")
AttrSet(set) == EntityAttr("Set", "", 0, FALSE, set, {}, "", "")
AttrRecord(record) == EntityAttr("Record", "", 0, FALSE, <<>>, record, "", "")
AttrEntityUid(type, id) == EntityAttr("EntityUid", "", 0, FALSE, <<>>, {}, type, id)
AttrFunction(fn, arg) == EntityAttr("Function", "", 0, FALSE, <<>>, {}, fn, arg)
AttrEntityUidEscape(type, id) ==
    EntityAttr("EntityUidEscape", "", 0, FALSE, <<>>, {}, type, id)
AttrFunctionEscape(fn, arg) ==
    EntityAttr("FunctionEscape", "", 0, FALSE, <<>>, {}, fn, arg)

LeafAttrs ==
    {AttrString("alice"), AttrNumber(1), AttrBoolean(TRUE),
     AttrEntityUid("User", "alice"), AttrEntityUidEscape("User", "alice"),
     AttrFunction("ip", "10.0.0.1"), AttrFunctionEscape("ip", "10.0.0.1")}

\* The attributes nested at most depth deep: sets of at most two elements,
\* records of at most the one attribute "a".
RECURSIVE AttrsTo(_)
AttrsTo(depth) ==
    IF depth = 0 THEN LeafAttrs
    ELSE LET inner == AttrsTo(depth - 1) IN
         LeafAttrs
         \cup {AttrSet(<<>>), AttrRecord({})}
         \cup {AttrSet(<<x>>) : x \in inner}
         \cup {AttrSet(<<x, y>>) : x \in inner, y \in inner}
         \cup {AttrRecord({[k |-> "a", v |-> x]}) : x \in inner}

\* A JSON value: null, a string, a number, a boolean, an array or an object.
Json(kind, s, n, b, items, fields) ==
    [kind |-> kind, s |-> s, n |-> n, b |-> b, items |-> items, fields |-> fields]
JsonString(s) == Json("string", s, 0, FALSE, <<>>, {})
JsonObject(fields) == Json("object", "", 0, FALSE, <<>>, fields)

\* Serialize of an untagged enum: the payload of the variant, with no tag. A
\* struct is the object of its renamed fields.
RECURSIVE encode_json(_)
encode_json(attr) ==
    CASE attr.variant = "String" -> JsonString(attr.s)
      [] attr.variant = "Number" -> Json("number", "", attr.n, FALSE, <<>>, {})
      [] attr.variant = "Boolean" -> Json("bool", "", 0, attr.b, <<>>, {})
      [] attr.variant = "Set" ->
           Json("array", "", 0, FALSE,
                [i \in 1..Len(attr.set) |-> encode_json(attr.set[i])], {})
      [] attr.variant = "Record" ->
           JsonObject({[k |-> kv.k, v |-> encode_json(kv.v)] : kv \in attr.record})
      [] attr.variant = "EntityUid" ->
           JsonObject({[k |-> "type", v |-> JsonString(attr.str1)],
                       [k |-> "id", v |-> JsonString(attr.str2)]})
      [] attr.variant = "Function" ->
           JsonObject({[k |-> "fn", v |-> JsonString(attr.str1)],
                       [k |-> "arg", v |-> JsonString(attr.str2)]})
      [] attr.variant = "EntityUidEscape" ->
           JsonObject({[k |-> "__entity",
                        v |-> JsonObject({[k |-> "type", v |-> JsonString(attr.str1)],
                                          [k |-> "id", v |-> JsonString(attr.str2)]})]})
      [] attr.variant = "FunctionEscape" ->
           JsonObject({[k |-> "__extn",
                        v |-> JsonObject({[k |-> "fn", v |-> JsonString(attr.str1)],
                                          [k |-> "arg", v |-> JsonString(attr.str2)]})]})

\* The string under key k of an object, if it has one: a field of a struct.
Field(json, k) ==
    IF json.kind = "object" /\ \E kv \in json.fields : kv.k = k /\ kv.v.kind = "string"
    THEN Some((CHOOSE kv \in json.fields : kv.k = k).v.s)
    ELSE None

\* The object under key k of an object, if it has one.
Inner(json, k) ==
    IF json.kind = "object" /\ \E kv \in json.fields : kv.k = k /\ kv.v.kind = "object"
    THEN Some((CHOOSE kv \in json.fields : kv.k = k).v)
    ELSE None

\* Deserialize of an untagged enum: the variants are tried in the order they are
\* declared and the first that accepts the value is taken. An array is a Set
\* when every item decodes; an object is a Record when every value decodes, and
\* only otherwise an EntityUid (strings under type and id), a Function (fn and
\* arg), an EntityUidEscape (such an object under __entity) or a FunctionEscape
\* (under __extn). Nothing accepts null.
RECURSIVE decode(_)
decode(json) ==
    CASE json.kind = "string" -> Some(AttrString(json.s))
      [] json.kind = "number" -> Some(AttrNumber(json.n))
      [] json.kind = "bool" -> Some(AttrBoolean(json.b))
      [] json.kind = "array" ->
           LET each == [i \in 1..Len(json.items) |-> decode(json.items[i])] IN
           IF \A i \in 1..Len(each) : each[i] # None
           THEN Some(AttrSet([i \in 1..Len(each) |-> each[i][1]]))
           ELSE None
      [] json.kind = "object" ->
           LET uid_escape == Inner(json, "__entity")  fn_escape == Inner(json, "__extn") IN
           IF \A kv \in json.fields : decode(kv.v) # None
           THEN Some(AttrRecord({[k |-> kv.k, v |-> decode(kv.v)[1]] : kv \in json.fields}))
           ELSE IF Field(json, "type") # None /\ Field(json, "id") # None
           THEN Some(AttrEntityUid(Field(json, "type")[1], Field(json, "id")[1]))
           ELSE IF Field(json, "fn") # None /\ Field(json, "arg") # None
           THEN Some(AttrFunction(Field(json, "fn")[1], Field(json, "arg")[1]))
           ELSE IF uid_escape # None /\ Field(uid_escape[1], "type") # None /\ Field(uid_escape[1], "id") # None
           THEN Some(AttrEntityUidEscape(Field(uid_escape[1], "type")[1], Field(uid_escape[1], "id")[1]))
           ELSE IF fn_escape # None /\ Field(fn_escape[1], "fn") # None /\ Field(fn_escape[1], "arg") # None
           THEN Some(AttrFunctionEscape(Field(fn_escape[1], "fn")[1], Field(fn_escape[1], "arg")[1]))
           ELSE None
      [] OTHER -> None

\* An attribute is written as JSON and read back: the task holds the attribute
\* it was given in arg and the value in hand in data.
to_json(t) ==
    /\ tasks[t].op = "entity_attr" /\ tasks[t].pc = "start"
    /\ tasks' = [tasks EXCEPT ![t].pc = "json", ![t].data = encode_json(tasks[t].data)]
    /\ UNCHANGED <<Others, db, cache, node, clock, hist>>

from_json(t) ==
    /\ tasks[t].op = "entity_attr" /\ tasks[t].pc = "json"
    /\ tasks' = [tasks EXCEPT
                   ![t].pc = "done",
                   ![t].res = IF decode(tasks[t].data) = None THEN "error" ELSE "ok",
                   ![t].data = decode(tasks[t].data)]
    /\ UNCHANGED <<Others, db, cache, node, clock, hist>>

InitAttr ==
    /\ dbKind = "dynamodb"
    /\ deploy = "single"
    /\ db = EmptyStore
    /\ cache = EmptyStore
    /\ node = [n \in Nodes |-> EmptyNode]
    /\ \E attr \in AttrsTo(MaxAttrDepth) :
         tasks = [t \in TaskIds |->
                    IF t = 1 THEN [IdleTask EXCEPT !.op = "entity_attr", !.node = 1,
                                                   !.pc = "start", !.arg = attr,
                                                   !.data = attr]
                    ELSE IdleTask]
    /\ inbox = [n \in Nodes |-> <<>>]
    /\ applying = [n \in Nodes |-> <<>>]
    /\ dead = [n \in Nodes |-> FALSE]
    /\ clock = 1
    /\ nextId = 1
    /\ hist = InitHist(EmptyNode)
NextAttr ==
    \/ \E t \in TaskIds : to_json(t)
    \/ \E t \in TaskIds : from_json(t)
SpecAttr == InitAttr /\ [][NextAttr]_vars

\* C30: an EntityAttr written as JSON and read back is the same variant with the
\* same content; an escaped entity reference comes back escaped and a bare one
\* bare.
C30_JsonRoundTrip ==
    \A t \in TaskIds :
      (tasks[t].op = "entity_attr" /\ tasks[t].pc = "done")
        => tasks[t].data = Some(tasks[t].arg)

\* No entity reference and no extension function, at any depth.
RECURSIVE Plain(_)
Plain(attr) ==
    /\ attr.variant \in {"String", "Number", "Boolean", "Set", "Record"}
    /\ \A i \in 1..Len(attr.set) : Plain(attr.set[i])
    /\ \A kv \in attr.record : Plain(kv.v)

\* Strings, numbers, booleans, and sets and records of them come back as they
\* were.
C30_PlainRoundTrip ==
    \A t \in TaskIds :
      (tasks[t].op = "entity_attr" /\ tasks[t].pc = "done" /\ Plain(tasks[t].arg))
        => tasks[t].data = Some(tasks[t].arg)

\* What comes back is always read, and written again gives the same JSON: the
\* content is kept where the variant is not.
C30_ContentKept ==
    \A t \in TaskIds :
      (tasks[t].op = "entity_attr" /\ tasks[t].pc = "done")
        => /\ tasks[t].data # None
           /\ encode_json(tasks[t].data[1]) = encode_json(tasks[t].arg)

\* An escaped entity reference has come back.
C30_EscapedCase ==
    \E t \in TaskIds :
      /\ tasks[t].op = "entity_attr" /\ tasks[t].pc = "done"
      /\ tasks[t].arg.variant = "EntityUidEscape"

(* ------------------- the empty namespace at rest ----------------------- *)

\* const DEFAULT_ATT
DEFAULT_ATT == "__DEFAULT__"

\* A schema is a map from namespace names to namespaces, here the set of its
\* (name, namespace) pairs; get, insert and remove are the HashMap's.
MapGet(map, k) == IF \E kv \in map : kv.k = k THEN Some((CHOOSE kv \in map : kv.k = k).v) ELSE None
MapRemove(map, k) == {kv \in map : kv.k # k}
MapInsert(map, k, v) == MapRemove(map, k) \cup {[k |-> k, v |-> v]}

\* DynamoDb::empty_namespace_to_default
empty_namespace_to_default(schema) ==
    LET namespace == MapGet(schema, "") IN
    IF namespace # None
    THEN MapRemove(MapInsert(schema, DEFAULT_ATT, namespace[1]), "")
    ELSE schema

\* DynamoDb::default_namespace_to_empty
default_namespace_to_empty(schema) ==
    LET namespace == MapGet(schema, DEFAULT_ATT) IN
    IF namespace # None
    THEN MapRemove(MapInsert(schema, "", namespace[1]), DEFAULT_ATT)
    ELSE schema

\* The schemas over three namespace names, the empty one and the sentinel among
\* them, each absent or holding one of the namespaces.
NamespaceNames == {"", DEFAULT_ATT, "App"}
Namespaces == {"ns1", "ns2", "ns3"}
Schemas ==
    {{[k |-> k, v |-> f[k]] : k \in names} :
        f \in [NamespaceNames -> Namespaces], names \in SUBSET NamespaceNames}

\* project_schema_save renames the empty namespace before it writes the item,
\* project_schema_load renames it back after reading: the task holds the schema
\* it was given in arg and the one in hand in data.
schema_save(t) ==
    /\ tasks[t].op = "schema_at_rest" /\ tasks[t].pc = "start"
    /\ tasks' = [tasks EXCEPT ![t].pc = "stored",
                              ![t].data = empty_namespace_to_default(tasks[t].data)]
    /\ UNCHANGED <<Others, db, cache, node, clock, hist>>

schema_load(t) ==
    /\ tasks[t].op = "schema_at_rest" /\ tasks[t].pc = "stored"
    /\ tasks' = [tasks EXCEPT ![t].pc = "done", ![t].res = "ok",
                              ![t].data = default_namespace_to_empty(tasks[t].data)]
    /\ UNCHANGED <<Others, db, cache, node, clock, hist>>

InitAtRest ==
    /\ dbKind = "dynamodb"
    /\ deploy = "single"
    /\ db = EmptyStore
    /\ cache = EmptyStore
    /\ node = [n \in Nodes |-> EmptyNode]
    /\ \E schema \in Schemas :
         tasks = [t \in TaskIds |->
                    IF t = 1 THEN [IdleTask EXCEPT !.op = "schema_at_rest", !.node = 1,
                                                   !.pc = "start", !.arg = schema,
                                                   !.data = schema]
                    ELSE IdleTask]
    /\ inbox = [n \in Nodes |-> <<>>]
    /\ applying = [n \in Nodes |-> <<>>]
    /\ dead = [n \in Nodes |-> FALSE]
    /\ clock = 1
    /\ nextId = 1
    /\ hist = InitHist(EmptyNode)
NextAtRest ==
    \/ \E t \in TaskIds : schema_save(t)
    \/ \E t \in TaskIds : schema_load(t)
SpecAtRest == InitAtRest /\ [][NextAtRest]_vars

\* C31: a schema whose empty namespace is renamed to the sentinel and back is
\* the schema it was, with the same namespace names and contents.
C31_SentinelRoundTrip ==
    \A t \in TaskIds :
      (tasks[t].op = "schema_at_rest" /\ tasks[t].pc = "done")
        => tasks[t].data = tasks[t].arg

\* The same for the schemas that have no namespace named as the sentinel.
C31_RoundTripWithoutSentinelName ==
    \A t \in TaskIds :
      (tasks[t].op = "schema_at_rest" /\ tasks[t].pc = "done"
         /\ MapGet(tasks[t].arg, DEFAULT_ATT) = None)
        => tasks[t].data = tasks[t].arg

\* At rest no namespace has the empty name.
C31_NoEmptyNameAtRest ==
    \A t \in TaskIds :
      (tasks[t].op = "schema_at_rest" /\ tasks[t].pc = "stored")
        => MapGet(tasks[t].data, "") = None

(* ---------------------- the owner of a new project -------------------- *)

\* One node, one call at a time: the caller's entity is taken out of the nil
\* project (the caller is then no administrator), a project is created, and a
\* management route checks the caller on the project.
GrantRequests ==
    {Req("project_entities_remove", Nil, [NoArg EXCEPT !.uids = {Caller}]),
     Req("project_create", 0, [NoArg EXCEPT !.name = "a", !.api_key = 2]),
     Req("is_allow", Nil, [NoArg EXCEPT !.principal = Caller, !.resource = entity_uid(1)])}
InitGrant == Boot({"dynamodb", "couchdb"}, {"single"})
NextGrant ==
    \/ Call(GrantRequests, MaxTasks, 1)
    \/ \E t \in TaskIds : project_entities_remove(t)
    \/ \E t \in TaskIds : project_create(t)
    \/ \E t \in TaskIds : allow(t)
SpecGrant == InitGrant /\ [][NextGrant]_vars

\* A node in state ns holds the entity of project x and the owner's admin-role
\* link in its nil project, and is_allow grants the owner the project.
Grants(ns, x) ==
    /\ Nil \in ns.entHas /\ entity(x) \in ns.ents[Nil]
    /\ Nil \in ns.polHas /\ template_links(x) \subseteq ns.pols[Nil].template_links
    /\ \A order \in Orders({x.owner, entity_uid(x.id)}) :
         is_allow(ns, x.owner, entity_uid(x.id), order).allow

\* C32: in the step in which project_create(P) returns, its node's nil-project
\* index holds P's entity, its nil-project policy set holds the owner's admin-role
\* link, and is_allow on that node grants the owner P.
C32_OwnerGrantedAtReturn ==
    [][\A t \in TaskIds :
          (ReturnsOk(t) /\ tasks[t].op = "project_create")
          => \A x \in tasks'[t].project : Grants(node'[tasks[t].node], x)]_vars

\* What a node loaded from the cache at that moment would hold does grant.
C32_CacheGrantsAtReturn ==
    [][\A t \in TaskIds :
          (ReturnsOk(t) /\ tasks[t].op = "project_create")
          => \A x \in tasks'[t].project : Grants(Compiled(cache'), x)]_vars

\* The owner, no administrator, has been refused the project it created.
C32_OwnerIsNeverRefused ==
    \A t \in TaskIds :
      (tasks[t].op = "is_allow" /\ tasks[t].pc = "done"
         /\ \E x \in db.projects : x.id = 1 /\ x.owner = tasks[t].arg.principal
         /\ \E u \in TaskIds : tasks[u].op = "project_create" /\ tasks[u].res = "ok"
                               /\ u < t)
        => tasks[t].res = "Allow"

(* ----------------------- a removed project's grant --------------------- *)

\* Node n completes the apply of the removal of project id in this step.
RemovalApplied(n, id) ==
    /\ applying[n] # <<>>
    /\ applying[n][1].ev.type = "ProjectRemove"
    /\ applying[n][1].ev.p = id
    /\ applying'[n] = <<>>
    /\ ~dead'[n]

\* The call that removes project id applies its own event on its node n in this
\* step.
RemovalInstalled(n, id) ==
    \E t \in TaskIds :
        /\ tasks[t].op = "project_remove" /\ tasks[t].node = n /\ tasks[t].p = id
        /\ tasks[t].pc = "install" /\ tasks'[t].pc # "install"

\* The nil project of a node in state ns holds the entity of project id, or a
\* link on it.
HoldsGrantOn(ns, id) ==
    \/ \E e \in ns.ents[Nil] : e.uid = entity_uid(id)
    \/ \E l \in ns.pols[Nil].template_links : l.resource = entity_uid(id)

\* C33: when the removal of P has been applied on a node, the node's nil-project
\* index holds no entity of P and its nil-project policy set no link on P, so
\* the nil project's policies grant nobody access to P on that node.
C33_RemovalRevokes ==
    [][\A n \in Nodes, id \in Projects :
          (RemovalApplied(n, id) \/ RemovalInstalled(n, id))
          => /\ ~HoldsGrantOn(node'[n], id)
             /\ \A principal \in {Caller, User1} :
                  Evaluate(node'[n].pols[Nil], node'[n].ents[Nil],
                           principal, entity_uid(id)) = "Deny"]_vars

\* What the ProjectRemove arm does remove: the project's own entries and its api
\* key.
C33_RemovalDropsOwnEntries ==
    [][\A n \in Nodes, id \in Projects :
          (RemovalApplied(n, id) \/ RemovalInstalled(n, id))
          => /\ id \notin node'[n].entHas /\ id \notin node'[n].polHas
             /\ node'[n].schemas[id] = Absent /\ node'[n].authorizers[id] = Absent]_vars

\* The same when every project_create has run to its end.
C33_RemovalRevokesAfterWholeCreate ==
    [][\A n \in Nodes, id \in Projects :
          ((RemovalApplied(n, id) \/ RemovalInstalled(n, id))
             /\ \A t \in TaskIds : tasks[t].op = "project_create" => tasks[t].res = "ok")
          => ~HoldsGrantOn(node'[n], id)]_vars

\* A node that has had no ReloadAll holds nothing of P in its nil project when
\* the removal is applied: ProjectCreate never put it there.
C33_NothingToRevokeWithoutReload ==
    [][\A n \in Nodes, id \in Projects :
          ((RemovalApplied(n, id) \/ RemovalInstalled(n, id))
             /\ \A t \in TaskIds : tasks[t].op # "reload")
          => ~HoldsGrantOn(node'[n], id)]_vars

(* --------------------------- the api-key index ------------------------- *)

\* C34: once no call is running and every event is applied, the api-key index of
\* every node holds exactly the current api key of each stored project, mapped
\* to its owner: no key a project had before an update, no key of a removed
\* project.
C34_KeysAreTheCurrentKeys ==
    Quiet => \A n \in Serving : node[n].api_keys = {KeyOf(x) : x \in db.projects}

\* Every stored project's current key is in the index.
C34_CurrentKeysAreIndexed ==
    Quiet => \A n \in Serving : {KeyOf(x) : x \in db.projects} \subseteq node[n].api_keys

(* ---------------------- entities and their schema ---------------------- *)

\* One node; the nil project's schema is removed and set again while entities
\* are added, two calls at a time.
TypingRequests ==
    {Req("project_schema_remove", Nil, NoArg),
     Req("project_schema_update", Nil, [NoArg EXCEPT !.str = "sNil"]),
     Req("project_entities_add", Nil, [NoArg EXCEPT !.ents = {Ent(User1, {})}]),
     Req("project_entities_add", Nil, [NoArg EXCEPT !.ents = {Ent(AdminUser, {AdminsGroup})}])}
InitTyping == Boot({"dynamodb"}, {"single"})
NextTyping ==
    \/ Call(TypingRequests, MaxTasks, MaxInFlight)
    \/ \E t \in TaskIds : project_schema_remove(t)
    \/ \E t \in TaskIds : project_schema_update(t)
    \/ \E t \in TaskIds : project_entities_add(t)
SpecTyping == InitTyping /\ [][NextTyping]_vars

\* Every entity store d holds type-checks against the schema d holds for its
\* project.
EntitiesTypeCheck(d) ==
    \A p \in AllProjects : \A e \in d.entities[p] : EntityChecks(e, d.schema[p])

\* C35: whenever no call is in progress, every stored entity type-checks against
\* its project's stored schema, also after a schema update and an entity add on
\* the project that ran at the same time.
C35_StoredEntitiesTypeCheck ==
    InFlight = {} => EntitiesTypeCheck(db)

\* The same when no two calls overlapped.
C35_SequentialEntitiesTypeCheck ==
    (InFlight = {} /\ \A t \in TaskIds : tasks[t].conc = {}) => EntitiesTypeCheck(db)

\* An entity of a type the schema lacks has been added while the project had no
\* schema, and a schema update was refused because of it.
C35_UpdateRefusedCase ==
    \E t \in TaskIds :
        /\ tasks[t].op = "project_schema_update" /\ tasks[t].res = "invalid"
        /\ \E e \in db.entities[Nil] : ~EntityChecks(e, "sNil")

(* ------------------- conflicting writes from two nodes ----------------- *)

\* Two nodes; an entity of the nil project is added and removed, two calls at a
\* time.
ConflictRequests ==
    {Req("project_entities_add", Nil, [NoArg EXCEPT !.ents = {Ent(AdminUser, {AdminsGroup})}]),
     Req("project_entities_remove", Nil, [NoArg EXCEPT !.uids = {AdminUser}])}
InitConflict == Boot({"dynamodb"}, {"cluster"})
NextConflict ==
    \/ Call(ConflictRequests, MaxTasks, MaxInFlight)
    \/ \E t \in TaskIds : project_entities_add(t)
    \/ \E t \in TaskIds : project_entities_remove(t)
    \/ \E n \in Nodes : Recv(n)
    \/ \E n \in Nodes : Apply(n)
SpecConflict == InitConflict /\ [][NextConflict]_vars

\* C36: whenever no call is in progress, the cache holds for every project and
\* every collection what the durable store holds, also after conflicting writes
\* to one key issued from different nodes at the same time.
C36_CacheIsTheDurableStore ==
    InFlight = {} => cache = db

\* The same when no two calls overlapped.
C36_SequentialCacheIsTheDurableStore ==
    (InFlight = {} /\ \A t \in TaskIds : tasks[t].conc = {}) => cache = db

\* An add and a remove of the same entity, from different nodes, have overlapped
\* and both returned.
C36_ConflictCase ==
    \E t, u \in TaskIds :
        /\ tasks[t].op = "project_entities_add" /\ tasks[t].res = "ok"
        /\ tasks[u].op = "project_entities_remove" /\ tasks[u].res = "ok"
        /\ tasks[t].node # tasks[u].node
        /\ u \in tasks[t].conc \/ t \in tasks[u].conc

(* ------------------------- timestamps at rest -------------------------- *)

\* An instant (chrono::DateTime<Utc>) is a count of ticks finer than a
\* millisecond; Utc::now() returns any of them.
Instants == TicksPerMilli..MaxInstant

\* DateTime::timestamp_millis and DateTime::from_timestamp_millis
timestamp_millis(instant) == instant \div TicksPerMilli
from_timestamp_millis(millis) == millis * TicksPerMilli

\* DateTime::to_rfc3339, and the parse serde makes of it: the text carries the
\* whole milliseconds and the fraction below them.
to_rfc3339(instant) ==
    [millis |-> instant \div TicksPerMilli, frac |-> instant % TicksPerMilli]
parse_rfc3339(text) == text.millis * TicksPerMilli + text.frac

\* DynamoDb::project_to_item: updated_at is written as the number of
\* milliseconds.
project_to_item(project) ==
    [name |-> project.name, api_key |-> project.api_key,
     updated_at |-> [N |-> timestamp_millis(project.updated_at)]]

\* DynamoDb::project_from_item: the number is turned into an instant, written as
\* RFC 3339 text into the item, and the item deserialized.
project_from_item(item, id, owner) ==
    LET updated_at == from_timestamp_millis(item.updated_at.N) IN
    Project(id, item.name, item.api_key, owner, parse_rfc3339(to_rfc3339(updated_at)))

\* CouchDb::project_to_value and project_from_value: the project as its JSON.
project_to_value(project) ==
    [name |-> project.name, api_key |-> project.api_key,
     updated_at |-> to_rfc3339(project.updated_at)]
project_from_value(value, id, owner) ==
    Project(id, value.name, value.api_key, owner, parse_rfc3339(value.updated_at))

\* project_create saves the project it returns (arg); the caller sends it back
\* to project_update, which loads the stored project and compares updated_at.
save_project(t) ==
    /\ tasks[t].op = "project_at_rest" /\ tasks[t].pc = "start"
    /\ tasks' = [tasks EXCEPT
                   ![t].pc = "stored",
                   ![t].data = IF dbKind = "dynamodb" THEN project_to_item(tasks[t].arg)
                               ELSE project_to_value(tasks[t].arg)]
    /\ UNCHANGED <<Others, db, cache, node, clock, hist>>

load_project(t) ==
    LET project == tasks[t].arg IN
    /\ tasks[t].op = "project_at_rest" /\ tasks[t].pc = "stored"
    /\ tasks' = [tasks EXCEPT
                   ![t].pc = "loaded",
                   ![t].data = IF dbKind = "dynamodb"
                               THEN project_from_item(tasks[t].data, project.id, project.owner)
                               ELSE project_from_value(tasks[t].data, project.id, project.owner)]
    /\ UNCHANGED <<Others, db, cache, node, clock, hist>>

echo_update(t) ==
    /\ tasks[t].op = "project_at_rest" /\ tasks[t].pc = "loaded"
    /\ tasks' = [tasks EXCEPT
                   ![t].pc = "done",
                   ![t].res = IF tasks[t].data.updated_at # tasks[t].arg.updated_at
                              THEN "BadRequest" ELSE "ok"]
    /\ UNCHANGED <<Others, db, cache, node, clock, hist>>

InitStamp ==
    /\ dbKind \in {"dynamodb", "couchdb"}
    /\ deploy = "single"
    /\ db = EmptyStore
    /\ cache = EmptyStore
    /\ node = [n \in Nodes |-> EmptyNode]
    /\ \E now \in Instants, name \in {"a", "b"} :
         tasks = [t \in TaskIds |->
                    IF t = 1
                    THEN [IdleTask EXCEPT !.op = "project_at_rest", !.node = 1,
                                          !.pc = "start",
                                          !.arg = Project(1, name, 2, Caller, now)]
                    ELSE IdleTask]
    /\ inbox = [n \in Nodes |-> <<>>]
    /\ applying = [n \in Nodes |-> <<>>]
    /\ dead = [n \in Nodes |-> FALSE]
    /\ clock = 1
    /\ nextId = 1
    /\ hist = InitHist(EmptyNode)
NextStamp ==
    \/ \E t \in TaskIds : save_project(t)
    \/ \E t \in TaskIds : load_project(t)
    \/ \E t \in TaskIds : echo_update(t)
SpecStamp == InitStamp /\ [][NextStamp]_vars

\* C37: a project loaded right after it was saved equals the saved project, its
\* updated_at included, and a project_update that echoes the updated_at the
\* create returned passes the check.
C37_LoadedIsSaved ==
    \A t \in TaskIds :
      /\ (tasks[t].op = "project_at_rest" /\ tasks[t].pc \in {"loaded", "done"})
           => tasks[t].data = tasks[t].arg
      /\ (tasks[t].op = "project_at_rest" /\ tasks[t].pc = "done")
           => tasks[t].res = "ok"

\* The same for instants that are whole milliseconds, and on CouchDB.
C37_LoadedIsSavedToTheMillisecond ==
    \A t \in TaskIds :
      (tasks[t].op = "project_at_rest" /\ tasks[t].pc \in {"loaded", "done"}
         /\ (dbKind = "couchdb" \/ tasks[t].arg.updated_at % TicksPerMilli = 0))
        => /\ tasks[t].data = tasks[t].arg
           /\ tasks[t].pc = "done" => tasks[t].res = "ok"

\* What is loaded is the saved project with updated_at cut to the millisecond.
C37_LoadedIsCutToTheMillisecond ==
    \A t \in TaskIds :
      (tasks[t].op = "project_at_rest" /\ tasks[t].pc \in {"loaded", "done"}
         /\ dbKind = "dynamodb")
        => tasks[t].data =
             [tasks[t].arg EXCEPT !.updated_at = @ - (@ % TicksPerMilli)]

(* ------------------ events applied while a node starts ----------------- *)

\* A cluster whose first node serves calls on the nil project's policies,
\* entities and schema, one at a time beside the startup, while the last node starts.
WindowRequests ==
    {Req("project_policies_add", Nil, [NoArg EXCEPT !.rows = {Row("p1", "ok")}]),
     Req("project_entities_add", Nil, [NoArg EXCEPT !.ents = {Ent(AdminUser, {AdminsGroup})}]),
     Req("project_schema_update", Nil, [NoArg EXCEPT !.str = SeedSchema])}
NextWindow ==
    \/ /\ Call(WindowRequests, MaxTasks - 1, MaxInFlight)
       /\ InFlight \subseteq {Starter}
       /\ \A t \in TaskIds : tasks'[t].op \notin {"idle", "startup"} => tasks'[t].node # Joiner
    \/ \E t \in TaskIds : project_policies_add(t)
    \/ \E t \in TaskIds : project_entities_add(t)
    \/ \E t \in TaskIds : project_schema_update(t)
    \/ \E t \in TaskIds : startup(t)
    \/ \E n \in Nodes : Recv(n)
    \/ \E n \in Nodes : Apply(n)
SpecWindow == InitJoin /\ [][NextWindow]_vars

\* Call t applies its event on its node in this step.
Installs(t) ==
    /\ tasks[t].op \notin {"idle", "startup"}
    /\ tasks[t].pc = "install" /\ tasks'[t].pc # "install"

\* What call t's event installs on a node is what store d holds: the schema of
\* a schema event, the entities named by an entity event, the policy set of a
\* policy event.
InstalledIsStored(t, ns, d) ==
    LET p == tasks[t].p
        stored == View(Compiled(d))
    IN  /\ tasks[t].op = "project_schema_update" => View(ns).schemas[p] = stored.schemas[p]
        /\ tasks[t].op = "project_entities_add" =>
              \A x \in tasks[t].arg.ents :
                  {e \in View(ns).ents[p] : e.uid = x.uid}
                      = {e \in stored.ents[p] : e.uid = x.uid}
        /\ tasks[t].op = "project_policies_add" => View(ns).pols[p] = stored.pols[p]

\* C38: an event that a running node applies while a joining node clears and
\* fills the shared cache installs on the running node the schema, entities or
\* policy set the durable store holds for the project.
C38_InstalledIsWhatIsStored ==
    [][\A t \in TaskIds :
          Installs(t) => InstalledIsStored(t, node'[tasks[t].node], db')]_vars

\* The same for the calls made after the startup ended.
C38_InstalledOutsideTheStartup ==
    [][\A t \in TaskIds :
          (Installs(t) /\ ~DuringStartup(t))
          => InstalledIsStored(t, node'[tasks[t].node], db')]_vars

\* A call installs what the cache held after the joining node had cleared it
\* and before it had filled it again.
C38_WindowCase ==
    \E t \in TaskIds :
        /\ tasks[t].op \notin {"idle", "startup"} /\ tasks[t].pc = "install"
        /\ tasks[Starter].pc \in {"load", "set"}
        /\ cache.templates[Nil] = {} /\ db.templates[Nil] # {}

(* ------------------ the subscriber after a failed apply ---------------- *)

\* Node n has run update on event ev of the bus.
AppliedOn(n, ev) == \E i \in DOMAIN hist.applied[n] : hist.applied[n][i] = ev.id

\* Nothing can move: no call is in flight and no subscriber has an event it
\* can take up or finish.
Settled ==
    /\ deploy = "cluster"
    /\ InFlight = {}
    /\ \A n \in Nodes : applying[n] = <<>> /\ (dead[n] \/ inbox[n] = <<>>)

\* C39: a failed apply does not stop a node from applying the events that
\* follow; when nothing can move any more, every node has applied every event
\* the other nodes published.
C39_LaterEventsAreApplied ==
    Settled => \A n \in Nodes : \A ev \in hist.sent : ev.sender # n => AppliedOn(n, ev)

\* The same where no apply has failed.
C39_AppliedWhereNoApplyFailed ==
    (Settled /\ \A n \in Nodes : ~dead[n])
    => \A n \in Nodes : \A ev \in hist.sent : ev.sender # n => AppliedOn(n, ev)

\* An apply has failed on a node, and an event published after that is one the
\* node has neither applied nor been handed.
C39_FailedApplyCase ==
    \E n \in Nodes :
        /\ dead[n] /\ applying[n] = <<>>
        /\ \E ev \in hist.sent :
              /\ ev.sender # n /\ ~AppliedOn(n, ev)
              /\ \A i \in DOMAIN inbox[n] : inbox[n][i].ev.id # ev.id

====
